---- MODULE Spec2Model ----
(***************************************************************************)
(* Model of scripts/packages_exporter.py: the noarch reconciliation of one *)
(* (source, destination) repository pair, the signature verification scan  *)
(* of one exported directory, and one run of main() from the deletion of   *)
(* the existing exporters to the signing of the last exported path, with   *)
(* the reconciliations and the scans that the run makes on its way.        *)
(*                                                                         *)
(* Python strings that the code searches, strips, lower-cases or joins are *)
(* sequences of one-character strings; strings that are only compared for  *)
(* equality are TLA+ strings.                                              *)
(***************************************************************************)
EXTENDS Integers, Sequences, FiniteSets, TLC

VARIABLES
    \* ---- noarch reconciliation of one (source, destination) pair ----------
    only_check_noarch,          \* Exporter.only_check_noarch
    show_differ_packages,       \* Exporter.show_differ_packages
    source_repo_packages,       \* noarch listing of the x86_64 repository
    repo_content,               \* noarch content of the destination's latest version
    repo_version,               \* number of the destination's latest version
    destination_repo_packages,  \* the destination listing the last run compared with
    packages_to_add,            \* the last run's add list
    packages_to_remove,         \* the last run's remove list
    pending_calls,              \* Pulp calls the running reconciliation has still to make
    pulp_calls,                 \* Pulp calls the last reconciliation has made, in order
    runs,                       \* reconciliations of this pair started so far
    gather_tasks,               \* the tasks of one asyncio.gather on this destination
    \* ---- signature verification of one exported directory ----------------
    repository_files,           \* os.listdir with what `rpm -qip` gives for each file
    sign_keys,                  \* key ids of the platform's sign keys
    known_subkeys,              \* Exporter.known_subkeys: owner key id -> sub-key ids
    errored_packages,           \* the last scan's three report sets
    no_signature_packages,
    wrong_signature_packages,
    logged_errors,              \* package paths of the last scan's logger.error calls
    export_error_file,          \* ~/export.err: whether it exists, and its text
    scans,                      \* scans of the directory so far
    \* ---- one run of main(), lines 549-618
    args,                       \* the parsed command line
    repositories,               \* the Repository rows of the database
    db_sign_keys,               \* the keys that the sign server lists
    unexportable,               \* repositories whose export leaves no directory
    registered_before,          \* the exporters that Pulp held before the run
    copy_noarch_packages,       \* Exporter.copy_noarch_packages
    pulp_content,               \* Pulp: every repository's noarch packages and versions
    updateinfo,                 \* repositories whose exported repodata holds updateinfo
    pc,                         \* the position of the control flow
    exporters,                  \* the filesystem exporters registered in Pulp
    exported,                   \* the exports to the filesystem made so far
    existing,                   \* the directories on the disk
    owner,                      \* the owner of every directory
    platform_i,                 \* export_repos_from_pulp: index of db_platform
    call_exporters,             \* export_repositories: the exporters of the call
    export_i,                   \* export_repositories: index of the next exporter
    harden_i,                   \* export_repos_from_pulp: index of the next repo_path
    final_export_paths,         \* export_repos_from_pulp: its local of that name
    local_platforms_dict,       \* export_repos_from_pulp: its local platforms_dict
    repos_x86_64,               \* export_repos_from_pulp: its local of that name
    repos_ppc64le,              \* export_repos_from_pulp: its local of that name
    exported_paths,             \* main: exported_paths
    platforms_dict,             \* main: platforms_dict
    key_id_by_platform,         \* main: key_id_by_platform
    main_i,                     \* main: index of the next exp_path
    raising,                    \* the exception in flight inside a try block
    failure,                    \* the exception that ended the run
    noarch_calls,               \* the calls of prepare_and_execute_async_tasks
    verified,                   \* paths given to check_rpms_signature
    regenerated,                \* repo paths given to createrepo_c
    errata_called,              \* repodata given to update_ppc64le_errata
    errata_merged,              \* repodata that update_ppc64le_errata merged errata into
    signer_calls,               \* the calls of repomd_signer and their responses
    sign_requests,              \* the requests sent to the sign server
    signature_files,            \* repodata directories holding repomd.xml.asc
    metadata_log                \* the steps of main on the repodata directories, in order

reconcile_vars == <<only_check_noarch, show_differ_packages, source_repo_packages,
                    repo_content, repo_version, destination_repo_packages,
                    packages_to_add, packages_to_remove, pending_calls, pulp_calls,
                    runs, gather_tasks>>

verify_vars == <<repository_files, sign_keys, known_subkeys, errored_packages,
                 no_signature_packages, wrong_signature_packages, logged_errors,
                 export_error_file, scans>>

export_inputs == <<args, repositories, db_sign_keys, unexportable, registered_before,
                   copy_noarch_packages, updateinfo>>

export_vars == <<export_inputs, pulp_content, pc, exporters, exported, existing, owner, platform_i,
                 call_exporters, export_i, harden_i, final_export_paths,
                 local_platforms_dict, repos_x86_64, repos_ppc64le, exported_paths,
                 platforms_dict, key_id_by_platform, main_i, raising, failure,
                 noarch_calls, verified, regenerated, errata_called, errata_merged,
                 signer_calls,
                 sign_requests, signature_files, metadata_log>>

vars == <<reconcile_vars, verify_vars, export_vars>>

\* ------------------------------------------------------------------ bounds
MaxSrc == 2       \* packages in the source listing
MaxDst == 2       \* packages in the destination before the first run
MaxRuns == 2      \* reconciliations of the pair in one behaviour
MaxFiles == 2     \* files in the exported directory
MaxScans == 2     \* scans of the directory in one behaviour

\* ------------------------------------------------------------- sequences
\* Python's None where a package record is expected
None == [name |-> "", version |-> "", release |-> <<>>, sha256 |-> "", pulp_href |-> 0]

Range(s) == {s[i] : i \in DOMAIN s}

Min(S) == CHOOSE x \in S : \A y \in S : x <= y

\* sub in s (Python's substring test) on character sequences
Contains(sub, s) ==
    \E i \in 1..(Len(s) - Len(sub) + 1) :
        \A k \in 1..Len(sub) : s[i + k - 1] = sub[k]

\* --------------------------------------------------------------- packages
RelPlain   == <<"1", ".", "e", "l", "8">>
RelModular == <<"1", ".", "m", "o", "d", "u", "l", "e", "_", "e", "l", "8">>
RelPlus    == <<"1", ".", "m", "o", "d", "u", "l", "e", "+", "e", "l", "8">>

ModuleMarker == <<".", "m", "o", "d", "u", "l", "e", "_", "e", "l">>

Names     == {"A", "B"}
Versions  == {"1.0"}
Releases  == {RelPlain, RelModular, RelPlus}
Checksums == {"c1", "c2"}

\* Pulp gives every content unit (a package of one checksum) its own href.
NameNo(n) == IF n = "A" THEN 0 ELSE 1
RelNo(r)  == IF r = RelPlain THEN 0 ELSE IF r = RelModular THEN 1 ELSE 2
SumNo(c)  == IF c = "c1" THEN 0 ELSE 1
HrefOf(n, r, c) == 1 + SumNo(c) + 2 * RelNo(r) + 6 * NameNo(n)

Universe ==
    {[name |-> n, version |-> v, release |-> r, sha256 |-> c,
      pulp_href |-> HrefOf(n, r, c)] :
        n \in Names, v \in Versions, r \in Releases, c \in Checksums}

PackageOf(href) == CHOOSE p \in Universe : p.pulp_href = href

SameNVR(p, q) ==
    /\ p.name = q.name
    /\ p.version = q.version
    /\ p.release = q.release

\* A repository version holds at most one noarch package per (name, version, release).
UniqueNVR(S) == \A p, q \in S : SameNVR(p, q) => p = q

\* The listing of a set of packages, in the order of their hrefs.
RECURSIVE ListingOf(_)
ListingOf(S) ==
    IF S = {} THEN <<>>
    ELSE LET h == Min({p.pulp_href : p \in S})
         IN <<PackageOf(h)>> \o ListingOf(S \ {PackageOf(h)})

Listings(max) ==
    {ListingOf(S) : S \in {T \in SUBSET Universe : Cardinality(T) <= max /\ UniqueNVR(T)}}

\* -------------------------------------------- copy_noarch_packages_from_x86_64_repo
is_modular(pkg_release) == Contains(ModuleMarker, pkg_release)

\* next((pkg for pkg in destination_repo_packages if all(...)), None)
compared_pkg(package_dict, dst) ==
    LET hits == {i \in DOMAIN dst : SameNVR(dst[i], package_dict)}
    IN IF hits = {} THEN None ELSE dst[Min(hits)]

\* AddedFor without the append of line 258: a package the destination lacks is
\* only logged.
AddedFor_SkipsMissing(package_dict, dst, show_differ) ==
    LET cmp == compared_pkg(package_dict, dst)
    IN IF cmp = None
       THEN <<>>
       ELSE IF package_dict.sha256 # cmp.sha256
            THEN <<package_dict.pulp_href>>
            ELSE <<>>

\* AddedFor without the is_modular test of line 256.
AddedFor_NoModularCheck(package_dict, dst, show_differ) ==
    LET cmp == compared_pkg(package_dict, dst)
    IN IF cmp = None
       THEN IF show_differ
            THEN <<>>
            ELSE <<package_dict.pulp_href>>
       ELSE IF package_dict.sha256 # cmp.sha256
            THEN <<package_dict.pulp_href>>
            ELSE <<>>

\* AddedFor without the checksum comparison of line 262: every matched package
\* is replaced.
AddedFor_AlwaysReplaces(package_dict, dst, show_differ) ==
    LET cmp == compared_pkg(package_dict, dst)
    IN IF cmp = None
       THEN IF is_modular(package_dict.release) \/ show_differ
            THEN <<>>
            ELSE <<package_dict.pulp_href>>
       ELSE <<package_dict.pulp_href>>

\* what one iteration of the loop appends to packages_to_add
AddedFor(package_dict, dst, show_differ) ==
    LET cmp == compared_pkg(package_dict, dst)
    IN IF cmp = None
       THEN IF is_modular(package_dict.release) \/ show_differ
            THEN <<>>
            ELSE <<package_dict.pulp_href>>
       ELSE IF package_dict.sha256 # cmp.sha256
            THEN <<package_dict.pulp_href>>
            ELSE <<>>

\* RemovedFor without the append of line 263: an add-only replacement.
RemovedFor_Never(package_dict, dst) == <<>>

\* what one iteration of the loop appends to packages_to_remove
RemovedFor(package_dict, dst) ==
    LET cmp == compared_pkg(package_dict, dst)
    IN IF cmp = None
       THEN <<>>
       ELSE IF package_dict.sha256 # cmp.sha256
            THEN <<cmp.pulp_href>>
            ELSE <<>>

RECURSIVE ToAdd(_, _, _)
ToAdd(src, dst, show_differ) ==
    IF src = <<>> THEN <<>>
    ELSE AddedFor(Head(src), dst, show_differ) \o ToAdd(Tail(src), dst, show_differ)

RECURSIVE ToRemove(_, _)
ToRemove(src, dst) ==
    IF src = <<>> THEN <<>>
    ELSE RemovedFor(Head(src), dst) \o ToRemove(Tail(src), dst)

\* ModifyCalls with the two lists sent in two modification calls.
ModifyCalls_Split(add, remove, only_check) ==
    IF add # <<>> /\ ~only_check
    THEN <<[op |-> "modify_repository", add |-> add, remove |-> <<>>],
           [op |-> "modify_repository", add |-> <<>>, remove |-> remove],
           [op |-> "create_rpm_publication", add |-> <<>>, remove |-> <<>>]>>
    ELSE <<>>

\* ModifyCalls without the only_check_noarch test of line 268.
ModifyCalls_IgnoresCheckMode(add, remove, only_check) ==
    IF add # <<>>
    THEN <<[op |-> "modify_repository", add |-> add, remove |-> remove],
           [op |-> "create_rpm_publication", add |-> <<>>, remove |-> <<>>]>>
    ELSE <<>>

\* the calls of lines 268-276: one modify_repository carrying both lists, then
\* one create_rpm_publication
ModifyCalls(add, remove, only_check) ==
    IF add # <<>> /\ ~only_check
    THEN <<[op |-> "modify_repository", add |-> add, remove |-> remove],
           [op |-> "create_rpm_publication", add |-> <<>>, remove |-> <<>>]>>
    ELSE <<>>

\* The repository service applying one call to a repository's content: a
\* modification drops the removed units and adds the added ones in one new
\* version; a publication leaves the content as it is.
PulpApply(content, call) ==
    IF call.op = "modify_repository"
    THEN LET kept  == SelectSeq(content, LAMBDA p : p.pulp_href \notin Range(call.remove))
             fresh == SelectSeq(call.add,
                                LAMBDA h : h \notin {p.pulp_href : p \in Range(kept)})
         IN kept \o [i \in DOMAIN fresh |-> PackageOf(fresh[i])]
    ELSE content

\* Every modification makes a new repository version.
PulpVersion(version, call) ==
    IF call.op = "modify_repository" THEN version + 1 ELSE version

\* retrieve_all_packages_from_pulp: the pages of the listing, concatenated
PageSize == 2
RECURSIVE retrieve_all_packages_from_pulp(_)
retrieve_all_packages_from_pulp(content) ==
    IF Len(content) <= PageSize THEN content
    ELSE SubSeq(content, 1, PageSize)
         \o retrieve_all_packages_from_pulp(SubSeq(content, PageSize + 1, Len(content)))

\* no directory is being verified
VerifyIdle ==
    /\ repository_files = <<>>
    /\ sign_keys = <<>>
    /\ known_subkeys = {}
    /\ errored_packages = {}
    /\ no_signature_packages = {}
    /\ wrong_signature_packages = {}
    /\ logged_errors = {}
    /\ export_error_file = [exists |-> FALSE, text |-> <<>>]
    /\ scans = 0

\* no run of main() is under way
ExportIdle ==
    /\ args = [distribution |-> "", release_id |-> 0, platform_names |-> <<>>,
               repo_ids |-> <<>>, arches |-> <<>>]
    /\ repositories = <<>>
    /\ db_sign_keys = <<>>
    /\ unexportable = {}
    /\ registered_before = {}
    /\ copy_noarch_packages = FALSE
    /\ updateinfo = {}
    /\ pulp_content = <<>>
    /\ pc = "idle"
    /\ exporters = {}
    /\ exported = {}
    /\ existing = {}
    /\ owner = <<>>
    /\ platform_i = 1
    /\ call_exporters = <<>>
    /\ export_i = 1
    /\ harden_i = 1
    /\ final_export_paths = <<>>
    /\ local_platforms_dict = <<>>
    /\ repos_x86_64 = <<>>
    /\ repos_ppc64le = <<>>
    /\ exported_paths = <<>>
    /\ platforms_dict = <<>>
    /\ key_id_by_platform = "None"
    /\ main_i = 1
    /\ raising = ""
    /\ failure = ""
    /\ noarch_calls = <<>>
    /\ verified = {}
    /\ regenerated = {}
    /\ errata_called = {}
    /\ errata_merged = {}
    /\ signer_calls = <<>>
    /\ sign_requests = {}
    /\ signature_files = {}
    /\ metadata_log = <<>>

InitReconcile ==
    /\ only_check_noarch \in BOOLEAN
    /\ show_differ_packages \in BOOLEAN
    /\ source_repo_packages \in Listings(MaxSrc)
    /\ repo_content \in Listings(MaxDst)
    /\ repo_version = 0
    /\ destination_repo_packages = <<>>
    /\ packages_to_add = <<>>
    /\ packages_to_remove = <<>>
    /\ pending_calls = <<>>
    /\ pulp_calls = <<>>
    /\ runs = 0
    /\ gather_tasks = <<>>
    /\ VerifyIdle
    /\ ExportIdle

\* Lines 232-268: the listing of the destination and the loop over the source
\* packages, up to the first call that changes the repository service.
copy_noarch_packages_from_x86_64_repo ==
    /\ runs < MaxRuns
    /\ pending_calls = <<>>
    /\ LET dst    == retrieve_all_packages_from_pulp(repo_content)
           add    == ToAdd(source_repo_packages, dst, show_differ_packages)
           remove == ToRemove(source_repo_packages, dst)
       IN /\ destination_repo_packages' = dst
          /\ packages_to_add' = add
          /\ packages_to_remove' = remove
          /\ pending_calls' = ModifyCalls(add, remove, only_check_noarch)
    /\ pulp_calls' = <<>>
    /\ runs' = runs + 1
    /\ UNCHANGED <<only_check_noarch, show_differ_packages, source_repo_packages,
                   repo_content, repo_version, gather_tasks>>
    /\ UNCHANGED verify_vars
    /\ UNCHANGED export_vars

\* Lines 269-276: the running reconciliation awaits its next Pulp call.
PulpCall ==
    /\ pending_calls # <<>>
    /\ repo_content' = PulpApply(repo_content, Head(pending_calls))
    /\ repo_version' = PulpVersion(repo_version, Head(pending_calls))
    /\ pulp_calls' = Append(pulp_calls, Head(pending_calls))
    /\ pending_calls' = Tail(pending_calls)
    /\ UNCHANGED <<only_check_noarch, show_differ_packages, source_repo_packages,
                   destination_repo_packages, packages_to_add, packages_to_remove,
                   runs, gather_tasks>>
    /\ UNCHANGED verify_vars
    /\ UNCHANGED export_vars

NextReconcile ==
    \/ copy_noarch_packages_from_x86_64_repo
    \/ PulpCall

SpecReconcile == InitReconcile /\ [][NextReconcile]_vars

\* ---- the tasks of one asyncio.gather that share a destination --------------
\* the noarch packages of the source repositories of the batch: one name, a
\* plain and a modular release, each built with two checksums
GatherPackages == {p \in Universe : p.name = "A" /\ p.release \in {RelPlain, RelModular}}

GatherListings ==
    {ListingOf(S) : S \in {T \in SUBSET GatherPackages : UniqueNVR(T)}}

\* lines 287-301: two sources of one debug flag, each paired with the one
\* destination; the source listing is fetched before the task is made
GatherTask(source) ==
    [source_repo_packages |-> source, at |-> "created",
     latest_repo_version |-> 0, version_packages |-> <<>>,
     destination_repo_packages |-> <<>>, packages_to_add |-> <<>>,
     packages_to_remove |-> <<>>, pending_calls |-> <<>>]

\* line 303: the tasks handed to asyncio.gather
InitGather ==
    /\ only_check_noarch \in BOOLEAN
    /\ show_differ_packages \in BOOLEAN
    /\ repo_content \in GatherListings
    /\ gather_tasks \in {<<GatherTask(s1), GatherTask(s2)>> : s1, s2 \in GatherListings}
    /\ source_repo_packages = <<>>
    /\ repo_version = 0
    /\ destination_repo_packages = <<>>
    /\ packages_to_add = <<>>
    /\ packages_to_remove = <<>>
    /\ pending_calls = <<>>
    /\ pulp_calls = <<>>
    /\ runs = 0
    /\ VerifyIdle
    /\ ExportIdle

\* line 233 in task t: the service answers get_repo_latest_version; a version
\* never changes, so the packages that its listing will give are fixed here
gather_task_version(t) ==
    /\ gather_tasks[t].at = "created"
    /\ gather_tasks' =
          [gather_tasks EXCEPT ![t] =
              [gather_tasks[t] EXCEPT !.at = "listing",
                                      !.latest_repo_version = repo_version,
                                      !.version_packages = repo_content]]
    /\ UNCHANGED <<only_check_noarch, show_differ_packages, source_repo_packages,
                   repo_content, repo_version, destination_repo_packages,
                   packages_to_add, packages_to_remove, pending_calls, pulp_calls,
                   runs>>
    /\ UNCHANGED verify_vars
    /\ UNCHANGED export_vars

\* lines 232-268 in task t: the event loop runs the task from the answer to
\* its listing of the version it was given up to its next await
gather_task_lists(t) ==
    /\ gather_tasks[t].at = "listing"
    /\ LET task   == gather_tasks[t]
           dst    == retrieve_all_packages_from_pulp(task.version_packages)
           add    == ToAdd(task.source_repo_packages, dst, show_differ_packages)
           remove == ToRemove(task.source_repo_packages, dst)
           calls  == ModifyCalls(add, remove, only_check_noarch)
       IN gather_tasks' =
            [gather_tasks EXCEPT ![t] =
                [task EXCEPT !.at = IF calls = <<>> THEN "done" ELSE "awaiting",
                             !.destination_repo_packages = dst,
                             !.packages_to_add = add,
                             !.packages_to_remove = remove,
                             !.pending_calls = calls]]
    /\ UNCHANGED <<only_check_noarch, show_differ_packages, source_repo_packages,
                   repo_content, repo_version, destination_repo_packages,
                   packages_to_add, packages_to_remove, pending_calls, pulp_calls,
                   runs>>
    /\ UNCHANGED verify_vars
    /\ UNCHANGED export_vars

\* lines 269-276 in task t: the service answers the call the task awaits
gather_task_call(t) ==
    /\ gather_tasks[t].at = "awaiting"
    /\ LET task == gather_tasks[t]
           call == Head(task.pending_calls)
           rest == Tail(task.pending_calls)
       IN /\ repo_content' = PulpApply(repo_content, call)
          /\ repo_version' = PulpVersion(repo_version, call)
          /\ pulp_calls' = Append(pulp_calls, call)
          /\ gather_tasks' =
                [gather_tasks EXCEPT ![t] =
                    [task EXCEPT !.at = IF rest = <<>> THEN "done" ELSE "awaiting",
                                 !.pending_calls = rest]]
    /\ UNCHANGED <<only_check_noarch, show_differ_packages, source_repo_packages,
                   destination_repo_packages, packages_to_add, packages_to_remove,
                   pending_calls, runs>>
    /\ UNCHANGED verify_vars
    /\ UNCHANGED export_vars

NextGather ==
    \/ \E t \in DOMAIN gather_tasks : gather_task_version(t)
    \/ \E t \in DOMAIN gather_tasks : gather_task_lists(t)
    \/ \E t \in DOMAIN gather_tasks : gather_task_call(t)

SpecGather == InitGather /\ [][NextGather]_vars

\* ======================================================================
\* Properties of the reconciliation of one pair
\* ======================================================================
Hrefs(content) == {content[i].pulp_href : i \in DOMAIN content}

\* the release string holds the module-context marker ".module_el"
HasModuleMarker(p) ==
    \E i \in 1..Len(p.release) :
        /\ i + Len(ModuleMarker) - 1 <= Len(p.release)
        /\ SubSeq(p.release, i, i + Len(ModuleMarker) - 1) = ModuleMarker

\* the destination listing of the last run has a package of p's (name, version, release)
MatchedInDestination(p) ==
    \E j \in DOMAIN destination_repo_packages :
        SameNVR(destination_repo_packages[j], p)

\* a source package the destination lacks and that is not modular
MissingNonModular(p) == ~HasModuleMarker(p) /\ ~MatchedInDestination(p)

\* a modular source package the destination lacks
MissingModular(p) == HasModuleMarker(p) /\ ~MatchedInDestination(p)

AllCalls == pulp_calls \o pending_calls

\* Every repository version keeps one noarch package per (name, version, release).
ContentHasUniqueNVR == UniqueNVR(Range(repo_content))

\* C1, as stated: after a reconciliation, every non-modular source package with
\* no destination package of the same (name, version, release) is in
\* packages_to_add.
C1_MissingAlwaysAdded ==
    runs > 0 =>
        \A p \in Range(source_repo_packages) :
            MissingNonModular(p) => p.pulp_href \in Range(packages_to_add)

\* C1, amended: the same, when the show-differ-packages option is off.
C1_MissingAddedUnlessShowDiffer ==
    (runs > 0 /\ ~show_differ_packages) =>
        \A p \in Range(source_repo_packages) :
            MissingNonModular(p) => p.pulp_href \in Range(packages_to_add)

C1_Witness ==
    /\ runs > 0
    /\ ~show_differ_packages
    /\ \E p \in Range(source_repo_packages) :
        /\ MissingNonModular(p)
        /\ p.release = RelPlus
        /\ packages_to_add = <<p.pulp_href>>
        /\ packages_to_remove = <<>>

\* C2: after a reconciliation, for a source package and a destination package
\* of the same (name, version, release): with different checksums the
\* destination's handle is in packages_to_remove and the source's in
\* packages_to_add; with equal checksums neither handle is in either list.
C2_DifferingChecksumReplaced ==
    runs > 0 =>
        \A p \in Range(source_repo_packages), d \in Range(destination_repo_packages) :
            SameNVR(p, d) =>
                IF p.sha256 # d.sha256
                THEN /\ d.pulp_href \in Range(packages_to_remove)
                     /\ p.pulp_href \in Range(packages_to_add)
                ELSE {p.pulp_href, d.pulp_href}
                        \cap (Range(packages_to_add) \cup Range(packages_to_remove)) = {}

C2_Witness ==
    /\ runs > 0
    /\ \E p \in Range(source_repo_packages), d \in Range(destination_repo_packages) :
        /\ SameNVR(p, d)
        /\ p.sha256 = "c1"
        /\ d.sha256 = "c2"
        /\ packages_to_add = <<p.pulp_href>>
        /\ packages_to_remove = <<d.pulp_href>>
    /\ \E p \in Range(source_repo_packages), d \in Range(destination_repo_packages) :
        /\ SameNVR(p, d)
        /\ p.sha256 = d.sha256

\* C3: in every mode, a modular source package with no destination package of
\* the same (name, version, release) is not in packages_to_add and in no
\* modification call.
C3_MissingModularNeverAdded ==
    runs > 0 =>
        \A p \in Range(source_repo_packages) :
            MissingModular(p) =>
                /\ p.pulp_href \notin Range(packages_to_add)
                /\ \A k \in DOMAIN AllCalls : p.pulp_href \notin Range(AllCalls[k].add)
                /\ p.pulp_href \notin Hrefs(repo_content)

C3_Witness ==
    /\ runs > 0
    /\ pending_calls = <<>>
    /\ \E k \in DOMAIN pulp_calls : pulp_calls[k].op = "modify_repository"
    /\ \E p \in Range(source_repo_packages) : MissingModular(p)

\* C4, as stated: the second of two reconciliations in succession computes an
\* empty packages_to_add and an empty packages_to_remove.
C4_SecondRunEmpty ==
    runs >= 2 => (packages_to_add = <<>> /\ packages_to_remove = <<>>)

\* C4, amended: the same, when the reconciliations are not compare-only.
C4_SecondRunEmptyWhenCopying ==
    (runs >= 2 /\ ~only_check_noarch) =>
        (packages_to_add = <<>> /\ packages_to_remove = <<>>)

\* the first run replaced a package, the second found nothing to do
C4_Witness ==
    /\ runs = 2
    /\ ~only_check_noarch
    /\ repo_version = 1
    /\ Len(repo_content) = 2
    /\ packages_to_add = <<>>

\* C5: a reconciliation makes at most one modification call, that call carries
\* packages_to_add and packages_to_remove together, and in no state of the
\* destination's content is one of the two lists applied without the other.
C5_AddAndRemoveTogether ==
    runs > 0 =>
        LET mods == SelectSeq(AllCalls, LAMBDA c : c.op = "modify_repository")
            AnyRemoved == \E h \in Range(packages_to_remove) : h \notin Hrefs(repo_content)
            AllRemoved == \A h \in Range(packages_to_remove) : h \notin Hrefs(repo_content)
            AnyAdded   == \E h \in Range(packages_to_add) : h \in Hrefs(repo_content)
            AllAdded   == \A h \in Range(packages_to_add) : h \in Hrefs(repo_content)
        IN /\ Len(mods) <= 1
           /\ \A k \in DOMAIN mods :
                /\ mods[k].add = packages_to_add
                /\ mods[k].remove = packages_to_remove
           /\ AnyRemoved => (AllRemoved /\ AllAdded)
           /\ AnyAdded => (AllAdded /\ AllRemoved)

\* a call that replaced one package and added another has been made
C5_Witness ==
    /\ runs > 0
    /\ Len(packages_to_add) = 2
    /\ Len(packages_to_remove) = 1
    /\ \E k \in DOMAIN pulp_calls :
        /\ pulp_calls[k].op = "modify_repository"
        /\ pulp_calls[k].remove = packages_to_remove
    /\ Range(packages_to_add) \subseteq Hrefs(repo_content)

\* C6: in compare-only mode no step calls the repository service or changes the
\* destination's content or version.
C6_CompareOnlyChangesNothing ==
    [][only_check_noarch =>
        /\ repo_content' = repo_content
        /\ repo_version' = repo_version
        /\ pending_calls' = <<>>
        /\ pulp_calls' = <<>>]_vars

\* two compare-only runs have both computed the same non-empty lists
C6_Witness ==
    /\ only_check_noarch
    /\ runs = 2
    /\ packages_to_add # <<>>
    /\ packages_to_remove # <<>>
    /\ repo_version = 0
    /\ repo_content = destination_repo_packages

\* ======================================================================
\* Signature verification: check_rpms_signature
\* ======================================================================
\* The characters of the model are those of Latin-1 (code points 0 to 255);
\* on them re.IGNORECASE pairs the same letters as str.lower().
\* the characters that str.lower() changes, and what it makes of each
UpperChars ==
    <<"A", "B", "C", "D", "E", "F", "G", "H", "I", "J", "K", "L", "M", "N", "O", "P",
      "Q", "R", "S", "T", "U", "V", "W", "X", "Y", "Z", "À", "Á", "Â", "Ã", "Ä", "Å",
      "Æ", "Ç", "È", "É", "Ê", "Ë", "Ì", "Í", "Î", "Ï", "Ð", "Ñ", "Ò", "Ó", "Ô", "Õ",
      "Ö", "Ø", "Ù", "Ú", "Û", "Ü", "Ý", "Þ">>
LowerChars ==
    <<"a", "b", "c", "d", "e", "f", "g", "h", "i", "j", "k", "l", "m", "n", "o", "p",
      "q", "r", "s", "t", "u", "v", "w", "x", "y", "z", "à", "á", "â", "ã", "ä", "å",
      "æ", "ç", "è", "é", "ê", "ë", "ì", "í", "î", "ï", "ð", "ñ", "ò", "ó", "ô", "õ",
      "ö", "ø", "ù", "ú", "û", "ü", "ý", "þ">>
DigitChars == <<"0", "1", "2", "3", "4", "5", "6", "7", "8", "9">>

\* the other characters that \w takes: letters without a capital in Latin-1
\* and the numeric characters
OtherWordChars ==
    {"ª", "²", "³", "µ", "¹", "º", "¼", "½", "¾", "ß", "ÿ"}

\* the characters that \s and str.strip() take for blanks
SpaceChars ==
    {"\t", "\n", "", "\f", "\r", "", "", "", "", " ", "", " "}

Max(S) == CHOOSE x \in S : \A y \in S : x >= y

\* the lower-case letter of every upper-case letter
LowerOf ==
    [c \in Range(UpperChars) |->
        LowerChars[CHOOSE i \in DOMAIN UpperChars : UpperChars[i] = c]]

WordChars ==
    Range(UpperChars) \cup Range(LowerChars) \cup Range(DigitChars) \cup {"_"}
        \cup OtherWordChars

\* str.lower() of one character and of a string
LowerChar(c) == IF c \in DOMAIN LowerOf THEN LowerOf[c] ELSE c

Lower(str) == [i \in DOMAIN str |-> LowerChar(str[i])]

\* the regular expression classes \s and \w
IsSpace(c) == c \in SpaceChars
IsWord(c) == c \in WordChars

\* str.strip()
Strip(str) ==
    LET inked == {i \in DOMAIN str : ~IsSpace(str[i])}
    IN IF inked = {} THEN <<>> ELSE SubSeq(str, Min(inked), Max(inked))

StartsWith(str, prefix) ==
    /\ Len(prefix) <= Len(str)
    /\ SubSeq(str, 1, Len(prefix)) = prefix

EndsWith(str, suffix) ==
    /\ Len(suffix) <= Len(str)
    /\ SubSeq(str, Len(str) - Len(suffix) + 1, Len(str)) = suffix

\* ---- the text of `rpm -qip` ---------------------------------------------
StartLit  == <<"S", "i", "g", "n", "a", "t", "u", "r", "e">>
SigLit    == <<"s", "i", "g", "n", "a", "t", "u", "r", "e">>
KeyIdLit  == <<"k", "e", "y", " ", "i", "d", " ">>
NoneLit   == <<"n", "o", "n", "e">>
RpmSuffix == <<".", "r", "p", "m">>

\* a literal of the pattern at position i of str, under re.IGNORECASE
LiteralAt(str, i, lit) ==
    /\ i + Len(lit) - 1 <= Len(str)
    /\ \A k \in DOMAIN lit : LowerChar(str[i + k - 1]) = lit[k]

\* where the longest run of [\s:] that starts at position j ends (the first
\* position after it)
SeparatorEnd(str, j) ==
    LET others == {k \in j..Len(str) : ~(IsSpace(str[k]) \/ str[k] = ":")}
    IN IF others = {} THEN Len(str) + 1 ELSE Min(others)

\* (?P<key_id>(\()?\w+(\))?) at position k: the text it matches, <<>> if none
KeyIdAt(str, k) ==
    LET open  == k <= Len(str) /\ str[k] = "(" /\ k + 1 <= Len(str) /\ IsWord(str[k + 1])
        first == IF open THEN k + 1 ELSE k
        stops == {m \in first..Len(str) : ~IsWord(str[m])}
        last  == IF stops = {} THEN Len(str) ELSE Min(stops) - 1
        close == last + 1 <= Len(str) /\ str[last + 1] = ")"
    IN IF first > Len(str) \/ ~IsWord(str[first])
       THEN <<>>
       ELSE SubSeq(str, k, IF close THEN last + 1 ELSE last)

\* the pattern tried at position i: Signature, [\s:]+, the optional greedy
\* (.*Key ID ) and the key id
MatchAt(str, i) ==
    IF ~LiteralAt(str, i, SigLit)
    THEN <<>>
    ELSE LET j == i + Len(SigLit)
             e == SeparatorEnd(str, j)
             labels == {m \in e..Len(str) :
                            LiteralAt(str, m, KeyIdLit)
                            /\ KeyIdAt(str, m + Len(KeyIdLit)) # <<>>}
         IN IF e = j THEN <<>>
            ELSE IF labels # {} THEN KeyIdAt(str, Max(labels) + Len(KeyIdLit))
            ELSE KeyIdAt(str, e)

\* signature_regex.search(signature_line).groupdict()['key_id'], <<>> for no match
signature_regex_search(str) ==
    LET starts == {i \in DOMAIN str : MatchAt(str, i) # <<>>}
    IN IF starts = {} THEN <<>> ELSE MatchAt(str, Min(starts))

\* lines 346-351: the first stripped line that starts with "Signature", <<>> if none
signature_line(out) ==
    LET hits == {i \in DOMAIN out : StartsWith(Strip(out[i]), StartLit)}
    IN IF hits = {} THEN <<>> ELSE Strip(out[Min(hits)])

\* ---- the classification of one file --------------------------------------
RepositoryPath == <<"/", "e">>

\* os.path.join(repository_path, package)
package_path(package) == RepositoryPath \o <<"/">> \o package

\* line 326, without .lower()
key_ids_lower_Verbatim(keys) == keys

\* line 326
key_ids_lower(keys) == [i \in DOMAIN keys |-> Lower(keys[i])]

\* lines 368-372
signed_with_subkey(pkg_key_id, subkeys) ==
    \E entry \in subkeys : pkg_key_id \in Range(entry.subkeys)

\* lines 363-378 with `if` for the `elif` of line 366
ClassOf_FallsThrough(pkg_key_id, key_ids, subkeys) ==
    [sets |-> (IF Contains(NoneLit, pkg_key_id) THEN {"no_signature"} ELSE {})
                \cup (IF pkg_key_id \notin Range(key_ids)
                      THEN {"wrong_signature"} ELSE {}),
     logged |-> Contains(NoneLit, pkg_key_id)
                \/ (pkg_key_id \notin Range(key_ids)
                    /\ ~signed_with_subkey(pkg_key_id, subkeys))]

\* lines 363-378 with pkg_key_id == 'none' for the test of line 363
ClassOf_EqualsNone(pkg_key_id, key_ids, subkeys) ==
    IF pkg_key_id = NoneLit
    THEN [sets |-> {"no_signature"}, logged |-> TRUE]
    ELSE IF pkg_key_id \notin Range(key_ids)
    THEN [sets |-> {"wrong_signature"},
          logged |-> ~signed_with_subkey(pkg_key_id, subkeys)]
    ELSE [sets |-> {}, logged |-> FALSE]

\* lines 363-378: the report sets a key id puts its package in, and whether an
\* error is logged.  Line 378 is outside the `if not signed_with_subkey`.
ClassOf(pkg_key_id, key_ids, subkeys) ==
    IF Contains(NoneLit, pkg_key_id)
    THEN [sets |-> {"no_signature"}, logged |-> TRUE]
    ELSE IF pkg_key_id \notin Range(key_ids)
    THEN [sets |-> {"wrong_signature"},
          logged |-> ~signed_with_subkey(pkg_key_id, subkeys)]
    ELSE [sets |-> {}, logged |-> FALSE]

\* line 362: the lower-cased key id of a file the inspector could read, <<>> if
\* the file has no signature line or none the pattern matches
pkg_key_id_of(file) ==
    LET line == signature_line(file.out)
    IN IF file.exit_code # 0 \/ line = <<>>
       THEN <<>>
       ELSE Lower(signature_regex_search(line))

\* lines 334-378: one iteration of the loop
Evaluate(file, keys, subkeys) ==
    IF ~EndsWith(package_path(file.name), RpmSuffix)
    THEN [sets |-> {}, logged |-> FALSE]
    ELSE IF file.exit_code # 0
    THEN [sets |-> {"errored"}, logged |-> TRUE]
    ELSE LET line == signature_line(file.out)
             key  == signature_regex_search(line)
         IN IF line = <<>>
            THEN [sets |-> {}, logged |-> TRUE]
            ELSE IF key = <<>>
            THEN [sets |-> {"errored"}, logged |-> TRUE]
            ELSE ClassOf(Lower(key), key_ids_lower(keys), subkeys)

\* line 378: f'{package_path} {pkg_key_id}'
WrongEntry(file) == package_path(file.name) \o <<" ">> \o pkg_key_id_of(file)

\* lines 333-378 with `break` at line 345: the loop ends at the first file the
\* inspector cannot read
ScanResults_StopsAtFailure(files, keys, subkeys) ==
    [i \in DOMAIN files |->
        IF \E k \in 1..(i - 1) : /\ EndsWith(package_path(files[k].name), RpmSuffix)
                                 /\ files[k].exit_code # 0
        THEN [sets |-> {}, logged |-> FALSE]
        ELSE Evaluate(files[i], keys, subkeys)]

\* lines 333-378: the loop over the listing
ScanResults(files, keys, subkeys) ==
    [i \in DOMAIN files |-> Evaluate(files[i], keys, subkeys)]

\* the files of the listing that the scan puts in one report set
FilesIn(set, results) == {i \in DOMAIN results : set \in results[i].sets}

\* ---- the error report, lines 380-396 --------------------------------------
Header(text)  == [kind |-> "header", header |-> text, chars |-> <<>>]
Line(chars)   == [kind |-> "line", header |-> "", chars |-> chars]
Newline       == [kind |-> "newline", header |-> "", chars |-> <<>>]

\* '\n'.join(lines)
RECURSIVE Join(_)
Join(lines) ==
    IF lines = <<>> THEN <<>>
    ELSE IF Len(lines) = 1 THEN <<Head(lines)>>
    ELSE <<Head(lines), Newline>> \o Join(Tail(lines))

\* list(a_set): the elements in any order
Orders(S) ==
    {order \in [1..Cardinality(S) -> S] : \A i, j \in DOMAIN order :
                                              order[i] = order[j] => i = j}

Section(header, entries) ==
    IF entries = <<>> THEN <<>>
    ELSE <<Header(header)>> \o [i \in DOMAIN entries |-> Line(entries[i])]

\* lines 380-396: the mode is 'at' when the file exists and 'wt' otherwise
WriteReport(file, errored, unsigned, wrong) ==
    IF errored = <<>> /\ unsigned = <<>> /\ wrong = <<>>
    THEN file
    ELSE [exists |-> TRUE,
          text |-> (IF file.exists THEN file.text ELSE <<>>)
                   \o Join(Section("Packages that we cannot get information about:", errored)
                           \o Section("Packages without signature:", unsigned)
                           \o Section("Packages with wrong signature:", wrong))]

\* ---- the directories and keys of the model --------------------------------
KeyUpper == <<"A", "B", "1", "2">>
KeyLower == <<"a", "b", "1", "2">>
KeySub   == <<"c", "d", "3", "4">>
KeyOther == <<"e", "f", "5", "6">>
KeyAlien == <<"9", "9", "9", "9">>

NameLine   == <<"N", "a", "m", "e", " ", ":", " ", "a">>
SigPrefix  == <<"S", "i", "g", "n", "a", "t", "u", "r", "e", " ", ":">>
KeyIdLabel == <<" ", "R", "S", "A", ",", " ", "K", "e", "y", " ", "I", "D", " ">>
Unsigned   == <<" ", "(", "n", "o", "n", "e", ")">>
Indent     == <<" ", " ">>

Signed(key) == [exit_code |-> 0, out |-> <<NameLine, SigPrefix \o KeyIdLabel \o key>>]

InspectorResults ==
    {[exit_code |-> 1, out |-> <<>>],
     [exit_code |-> 0, out |-> <<NameLine>>],
     [exit_code |-> 0, out |-> <<NameLine, SigPrefix>>],
     [exit_code |-> 0, out |-> <<NameLine, Indent \o SigPrefix \o Unsigned>>],
     Signed(KeyUpper), Signed(KeyLower), Signed(KeySub), Signed(KeyOther)}

RpmA    == <<"a", ".", "r", "p", "m">>
RpmB    == <<"b", ".", "r", "p", "m">>
TextFile == <<"r", ".", "t", "x", "t">>

FileNames == {RpmA, RpmB, TextFile}

\* what the inspector would give for a file: it cannot read a file that is no package
Files ==
    {[name |-> n, exit_code |-> r.exit_code, out |-> r.out] :
        n \in FileNames \ {TextFile}, r \in InspectorResults}
    \cup {[name |-> TextFile, exit_code |-> 1, out |-> <<>>]}

Directories ==
    UNION {{d \in [1..n -> Files] : \A i, j \in 1..n : d[i].name = d[j].name => i = j} :
            n \in 0..MaxFiles}

SignKeyLists == {<<>>, <<KeyUpper>>, <<KeyOther, KeyUpper>>}

SubkeyMaps ==
    {{}, {[key |-> KeyLower, subkeys |-> <<KeySub>>]},
         {[key |-> KeyAlien, subkeys |-> <<KeySub>>]}}

\* no pair is being reconciled
ReconcileIdle ==
    /\ only_check_noarch = FALSE
    /\ show_differ_packages = FALSE
    /\ source_repo_packages = <<>>
    /\ repo_content = <<>>
    /\ repo_version = 0
    /\ destination_repo_packages = <<>>
    /\ packages_to_add = <<>>
    /\ packages_to_remove = <<>>
    /\ pending_calls = <<>>
    /\ pulp_calls = <<>>
    /\ runs = 0
    /\ gather_tasks = <<>>

\* an Exporter has been constructed: no error file, the sub-key map loaded
InitVerify ==
    /\ repository_files \in Directories
    /\ sign_keys \in SignKeyLists
    /\ known_subkeys \in SubkeyMaps
    /\ errored_packages = {}
    /\ no_signature_packages = {}
    /\ wrong_signature_packages = {}
    /\ logged_errors = {}
    /\ export_error_file = [exists |-> FALSE, text |-> <<>>]
    /\ scans = 0
    /\ ReconcileIdle
    /\ ExportIdle

\* lines 325-396
check_rpms_signature ==
    /\ scans < MaxScans
    /\ LET files    == repository_files
           results  == ScanResults(files, sign_keys, known_subkeys)
           errored  == {package_path(files[i].name) : i \in FilesIn("errored", results)}
           unsigned == {package_path(files[i].name) :
                            i \in FilesIn("no_signature", results)}
           wrong    == {WrongEntry(files[i]) : i \in FilesIn("wrong_signature", results)}
       IN /\ errored_packages' = errored
          /\ no_signature_packages' = unsigned
          /\ wrong_signature_packages' = wrong
          /\ logged_errors' =
                {package_path(files[i].name) :
                    i \in {k \in DOMAIN results : results[k].logged}}
          /\ \E eo \in Orders(errored), uo \in Orders(unsigned), wo \in Orders(wrong) :
                export_error_file' = WriteReport(export_error_file, eo, uo, wo)
    /\ scans' = scans + 1
    /\ UNCHANGED <<repository_files, sign_keys, known_subkeys>>
    /\ UNCHANGED reconcile_vars
    /\ UNCHANGED export_vars

\* lines 92-95: a new run of the script constructs its Exporter
Exporter_init ==
    /\ export_error_file' = [exists |-> FALSE, text |-> <<>>]
    /\ UNCHANGED <<repository_files, sign_keys, known_subkeys, errored_packages,
                   no_signature_packages, wrong_signature_packages, logged_errors,
                   scans>>
    /\ UNCHANGED reconcile_vars
    /\ UNCHANGED export_vars

NextVerify ==
    \/ check_rpms_signature
    \/ Exporter_init

SpecVerify == InitVerify /\ [][NextVerify]_vars

\* ======================================================================
\* Properties of the signature verification
\* ======================================================================
\* the files of the directory that the scan hands to the inspector
ScannedFiles ==
    {repository_files[i] : i \in {k \in DOMAIN repository_files :
        EndsWith(repository_files[k].name, RpmSuffix)}}

InErrored(file) == package_path(file.name) \in errored_packages
InUnsigned(file) == package_path(file.name) \in no_signature_packages
InWrongKey(file) ==
    \E entry \in wrong_signature_packages :
        StartsWith(entry, package_path(file.name) \o <<" ">>)

ReportSetsOf(file) ==
    {set \in {"errored", "no_signature", "wrong_signature"} :
        \/ set = "errored" /\ InErrored(file)
        \/ set = "no_signature" /\ InUnsigned(file)
        \/ set = "wrong_signature" /\ InWrongKey(file)}

\* the inspector's text has a signature line that names this key id
ReportsKey(file, key) ==
    /\ file.exit_code = 0
    /\ \E l \in DOMAIN file.out : Strip(file.out[l]) = SigPrefix \o KeyIdLabel \o key

\* the inspector's text has the signature line of an unsigned package
ReportsNone(file) ==
    /\ file.exit_code = 0
    /\ \E l \in DOMAIN file.out : Strip(file.out[l]) = SigPrefix \o Unsigned

SameIgnoringCase(a, b) ==
    /\ Len(a) = Len(b)
    /\ \A i \in DOMAIN a : LowerChar(a[i]) = LowerChar(b[i])

Authorized(key) == \E i \in DOMAIN sign_keys : SameIgnoringCase(sign_keys[i], key)

\* listed in the sub-key map under an authorized owner key
DelegatedSubkey(key) ==
    \E entry \in known_subkeys :
        /\ Authorized(entry.key)
        /\ key \in Range(entry.subkeys)

ReportedKeys == {KeyUpper, KeyLower, KeySub, KeyOther}

\* C7: after a scan every scanned package file is in at most one of the three
\* report sets (in none: accepted), and the report sets hold scanned files only.
C7_OneClassPerFile ==
    scans > 0 =>
        /\ \A file \in ScannedFiles : Cardinality(ReportSetsOf(file)) <= 1
        /\ \A file \in Range(repository_files) \ ScannedFiles : ReportSetsOf(file) = {}
        /\ Cardinality(errored_packages) + Cardinality(no_signature_packages)
              + Cardinality(wrong_signature_packages)
           = Cardinality({file \in ScannedFiles : ReportSetsOf(file) # {}})

\* a scan that filled two report sets and accepted nothing else
C7_Witness ==
    /\ scans > 0
    /\ Len(repository_files) = 2
    /\ no_signature_packages # {}
    /\ wrong_signature_packages # {}

\* C8: a package whose key id is not authorized but is a sub-key of an
\* authorized owner key is in no report set after the scan.
C8_SubkeyAccepted ==
    scans > 0 =>
        \A file \in ScannedFiles, key \in ReportedKeys :
            (ReportsKey(file, key) /\ ~Authorized(key) /\ DelegatedSubkey(key))
                => ReportSetsOf(file) = {}

\* C9: a package that the inspector reports as unsigned is in the unsigned set
\* and not in the wrong-key set after the scan.
C9_NoneIsUnsigned ==
    scans > 0 =>
        \A file \in ScannedFiles :
            ReportsNone(file) => (InUnsigned(file) /\ ~InWrongKey(file))

C9_Witness ==
    /\ scans > 0
    /\ sign_keys # <<>>
    /\ known_subkeys # {}
    /\ \E file \in ScannedFiles : ReportsNone(file) /\ InUnsigned(file)

\* C10: a package whose key id equals an authorized key id but for case is in
\* no report set, and while every scanned file is such a package nothing is
\* written to the error file and no error is logged.
C10_AuthorizedKeyAccepted ==
    scans > 0 =>
        /\ \A file \in ScannedFiles, key \in ReportedKeys :
              (ReportsKey(file, key) /\ Authorized(key)) => ReportSetsOf(file) = {}
        /\ (\A file \in ScannedFiles :
                \E key \in ReportedKeys : ReportsKey(file, key) /\ Authorized(key))
              => (~export_error_file.exists /\ logged_errors = {})

\* two packages, one reporting the key id in upper and one in lower case
C10_Witness ==
    /\ scans > 0
    /\ sign_keys = <<KeyUpper>>
    /\ \E f, g \in ScannedFiles : ReportsKey(f, KeyUpper) /\ ReportsKey(g, KeyLower)
    /\ ~export_error_file.exists

\* the inspector's text has no line that begins with the token Signature
NoSignatureLine(file) ==
    /\ file.exit_code = 0
    /\ \A l \in DOMAIN file.out : ~StartsWith(Strip(file.out[l]), StartLit)

\* C11: a package file that the inspector read (exit code 0) and whose text
\* has no line beginning with Signature is in the inspection-failed set after
\* the scan.
C11_NoSignatureLineIsInspectionFailed ==
    scans > 0 =>
        \A file \in ScannedFiles : NoSignatureLine(file) => InErrored(file)

\* the entries written in the lines of a text of the error file
EntriesOf(text) == {text[i].chars : i \in {k \in DOMAIN text : text[k].kind = "line"}}

IsPrefix(a, b) == Len(a) <= Len(b) /\ SubSeq(b, 1, Len(a)) = a

\* what a step appended to the error file
Appended(before, after) == SubSeq(after, Len(before) + 1, Len(after))

\* C12: a scan classifies every package file of the directory, whatever the
\* files before it gave: a file the inspector cannot read is in the
\* inspection-failed set, an unsigned one in the unsigned set, one signed with
\* a key that is neither authorized nor a delegated sub-key in the wrong-key
\* set, and every entry of the three sets is in the report that this scan
\* writes to the error file.
C12_ScanNeverStopsEarly ==
    [][scans' = scans + 1 =>
         /\ \A file \in ScannedFiles :
               /\ file.exit_code # 0 => InErrored(file)'
               /\ ReportsNone(file) => InUnsigned(file)'
               /\ \A key \in ReportedKeys :
                     (ReportsKey(file, key) /\ ~Authorized(key) /\ ~DelegatedSubkey(key))
                         => InWrongKey(file)'
         /\ errored_packages' \cup no_signature_packages' \cup wrong_signature_packages'
               = EntriesOf(Appended(export_error_file.text, export_error_file'.text))
      ]_vars

\* the first file of the directory cannot be read, the second is unsigned, and
\* both are in their sets and in the error file
C12_Witness ==
    /\ scans > 0
    /\ Len(repository_files) = 2
    /\ repository_files[1].exit_code # 0
    /\ InErrored(repository_files[1])
    /\ ReportsNone(repository_files[2])
    /\ InUnsigned(repository_files[2])
    /\ {package_path(repository_files[1].name), package_path(repository_files[2].name)}
          \subseteq EntriesOf(export_error_file.text)

\* C15: no step removes or overwrites text that is in the error file, neither
\* the start of a run nor the writing of a report, so that the entries of an
\* earlier run are still in the file, before those of the later run.
C15_LogNeverLosesEntries ==
    [][IsPrefix(export_error_file.text, export_error_file'.text)]_vars

\* ======================================================================
\* One run of main(): selection, export, hardening, regeneration, signing
\* ======================================================================
X86_64      == <<"x", "8", "6", "_", "6", "4">>
Ppc64le     == <<"p", "p", "c", "6", "4", "l", "e">>
PackagesDir == <<"P", "a", "c", "k", "a", "g", "e", "s">>
RepodataDir == <<"r", "e", "p", "o", "d", "a", "t", "a">>

\* settings.pulp_export_path
pulp_export_path == <<"/", "e">>

\* ---- pathlib.Path on POSIX ---------------------------------------------------
\* the components of a path: what stands between the slashes, without the
\* empty components and the components "."
RECURSIVE PathParts(_)
PathParts(p) ==
    IF p = <<>> THEN <<>>
    ELSE LET slashes == {i \in DOMAIN p : p[i] = "/"}
             end     == IF slashes = {} THEN Len(p) + 1 ELSE Min(slashes)
             first   == SubSeq(p, 1, end - 1)
         IN (IF first \in {<<>>, <<".">>} THEN <<>> ELSE <<first>>)
            \o PathParts(SubSeq(p, end + 1, Len(p)))

RECURSIVE JoinParts(_)
JoinParts(parts) ==
    IF parts = <<>> THEN <<>>
    ELSE IF Len(parts) = 1 THEN parts[1]
    ELSE parts[1] \o <<"/">> \o JoinParts(Tail(parts))

\* str(Path) of the root of p and the components parts; of the leading
\* slashes of p exactly two are kept, any other number of them is one
PathStr(p, parts) ==
    LET root == IF Len(p) >= 2 /\ p[1] = "/" /\ p[2] = "/"
                   /\ (Len(p) = 2 \/ p[3] # "/")
                THEN <<"/", "/">>
                ELSE IF p # <<>> /\ p[1] = "/" THEN <<"/">>
                ELSE <<>>
    IN IF root = <<>> /\ parts = <<>> THEN <<".">> ELSE root \o JoinParts(parts)

\* str(Path(a, b)) and str(Path(a) / b): an absolute b replaces a
PathJoin(a, b) ==
    IF b # <<>> /\ b[1] = "/"
    THEN PathStr(b, PathParts(b))
    ELSE PathStr(a, PathParts(a) \o PathParts(b))

\* str(Path(p).parent): the root and "." are their own parents
Parent(p) ==
    LET parts == PathParts(p)
    IN IF parts = <<>> THEN PathStr(p, parts)
       ELSE PathStr(p, SubSeq(parts, 1, Len(parts) - 1))

\* str.replace(old, new)
RECURSIVE Replace(_, _, _)
Replace(str, old, new) ==
    IF Len(str) < Len(old) THEN str
    ELSE IF SubSeq(str, 1, Len(old)) = old
    THEN new \o Replace(SubSeq(str, Len(old) + 1, Len(str)), old, new)
    ELSE <<Head(str)>> \o Replace(Tail(str), old, new)

\* ---- the rows of the database ---------------------------------------------
\* Platform rows with the ids of their repos; the third is a reference platform
Platforms ==
    <<[id |-> 1, name |-> "AlmaLinux-8", is_reference |-> FALSE, repos |-> <<1, 2>>],
      [id |-> 2, name |-> "AlmaLinux-9", is_reference |-> FALSE, repos |-> <<3>>],
      [id |-> 3, name |-> "CentOS-8", is_reference |-> TRUE, repos |-> <<>>]>>

Repository(id, name, arch, path, production) ==
    [id |-> id, name |-> name, arch |-> arch, debug |-> FALSE,
     production |-> production, export_path |-> path]

\* the Repository table, with every choice of the production flags
ProductionTables ==
    {<<Repository(1, <<"b", "8">>, X86_64, PathJoin(<<"a">>, X86_64), p1),
       Repository(2, <<"b", "8">>, Ppc64le, PathJoin(<<"a">>, Ppc64le), p2),
       Repository(3, <<"b", "9">>, X86_64, PathJoin(<<"b">>, X86_64), p3)>> :
        p1, p2, p3 \in BOOLEAN}

\* the table in which the ppc64le repository of the first platform is a debug
\* repository
DebugTable ==
    <<Repository(1, <<"b", "8">>, X86_64, PathJoin(<<"a">>, X86_64), TRUE),
      [Repository(2, <<"b", "8">>, Ppc64le, PathJoin(<<"a">>, Ppc64le), TRUE)
          EXCEPT !.debug = TRUE],
      Repository(3, <<"b", "9">>, X86_64, PathJoin(<<"b">>, X86_64), TRUE)>>

\* the table in which the repository of the second platform is exported to
\* the directory x86_64 of the export root, a name that is part of the export
\* path of a repository of the first platform
NestedTable ==
    <<Repository(1, <<"b", "8">>, X86_64, PathJoin(<<"a">>, X86_64), TRUE),
      Repository(2, <<"b", "8">>, Ppc64le, PathJoin(<<"a">>, Ppc64le), TRUE),
      Repository(3, <<"b", "9">>, X86_64, X86_64, TRUE)>>

\* the table in which the x86_64 repositories of the two platforms have one
\* full name, r-debuginfo-x86_64: the first is named r-debuginfo, the second
\* is the debug repository named r
DebuginfoNameTable ==
    <<Repository(1, <<"r", "-", "d", "e", "b", "u", "g", "i", "n", "f", "o">>, X86_64, PathJoin(<<"a">>, X86_64), TRUE),
      Repository(2, <<"r">>, Ppc64le, PathJoin(<<"a">>, Ppc64le), TRUE),
      [Repository(3, <<"r">>, X86_64, PathJoin(<<"b">>, X86_64), TRUE)
          EXCEPT !.debug = TRUE]>>

RepositoryTables == ProductionTables \cup {DebugTable, NestedTable, DebuginfoNameTable}

\* What Pulp holds of a repository: the noarch packages of its latest version,
\* the number of that version and the publications made of it.  The
\* repositories are those of the table, by id.
PulpContents ==
    LET a1 == <<PackageOf(HrefOf("A", RelPlain, "c1"))>>
        a2 == <<PackageOf(HrefOf("A", RelPlain, "c2"))>>
        Held(content) == [content |-> content, version |-> 0, publications |-> 0]
    IN {<<Held(a1), Held(<<>>), Held(a2)>>,
        <<Held(a1), Held(a2), Held(<<>>)>>}

\* Release rows; plan is jmespath's 'packages[].repositories[].id'
ReleaseRows == <<[id |-> 1, platform_id |-> 1, plan |-> <<1, 2>>]>>

\* .scalars().first() of a query that matches no row
NoRelease == [id |-> 0, platform_id |-> 0, plan |-> <<>>]

\* lines 484-487
ReleaseOf(release_id) ==
    LET hits == {i \in DOMAIN ReleaseRows : ReleaseRows[i].id = release_id}
    IN IF hits = {} THEN NoRelease ELSE ReleaseRows[Min(hits)]

\* Distribution rows with the ids of their repositories
Distributions == <<[name |-> "D", repositories |-> <<1, 2>>]>>

\* .scalars().first() of a query that matches no row
NoDistribution == [name |-> "", repositories |-> <<>>]

\* lines 308-312
DistributionOf(distr_name) ==
    LET hits == {i \in DOMAIN Distributions : Distributions[i].name = distr_name}
    IN IF hits = {} THEN NoDistribution ELSE Distributions[Min(hits)]

\* ---- the command line -----------------------------------------------------
\* An option that is not given is None; argparse gives a list option at least
\* one element (nargs='+'), so the empty sequence stands for None, and 0 for
\* the None of --release-id and "" for the None of --distribution.
Invocation(distribution, release_id, platform_names, repo_ids, arches) ==
    [distribution |-> distribution, release_id |-> release_id,
     platform_names |-> platform_names, repo_ids |-> repo_ids, arches |-> arches]

Invocations ==
    {Invocation("", 0, <<>>, <<>>, <<>>),
     Invocation("", 0, <<"AlmaLinux-8", "AlmaLinux-9", "CentOS-8">>, <<>>, <<>>),
     Invocation("", 0, <<"AlmaLinux-8">>, <<>>, <<>>),
     Invocation("", 0, <<"AlmaLinux-8", "AlmaLinux-9">>, <<>>, <<X86_64>>),
     Invocation("", 0, <<>>, <<2, 3>>, <<>>),
     Invocation("", 1, <<>>, <<>>, <<>>),
     Invocation("", 9, <<>>, <<>>, <<>>),
     Invocation("", 1, <<"AlmaLinux-9">>, <<>>, <<>>),
     Invocation("D", 0, <<>>, <<>>, <<>>),
     Invocation("D", 0, <<"AlmaLinux-8">>, <<>>, <<>>),
     Invocation("X", 0, <<>>, <<>>, <<>>)}

\* what GET sign-keys/ returns
SignServerKeys ==
    {<<>>,
     <<[keyid |-> "K1", platform_id |-> 1]>>,
     <<[keyid |-> "K1", platform_id |-> 1], [keyid |-> "K1b", platform_id |-> 1],
       [keyid |-> "K2", platform_id |-> 2]>>}

\* the text of the key ids
keyid_text ==
    [keyid \in {"K1", "K1b", "K2"} |->
        IF keyid = "K1" THEN KeyUpper ELSE IF keyid = "K1b" THEN KeyOther ELSE KeyAlien]

\* What an exported Packages directory holds, with what `rpm -qip` gives: one
\* package signed with the key whose id is the lower-cased id of K1, or one
\* unsigned package.  Every exported directory holds the same files.
ExportedDirectories ==
    {<<[name |-> RpmA, exit_code |-> 0, out |-> Signed(KeyLower).out]>>,
     <<[name |-> RpmA, exit_code |-> 0,
        out |-> <<NameLine, Indent \o SigPrefix \o Unsigned>>]>>}

\* next((keyid of the sign keys of the platform), None)
FirstKeyId(keys, platform_id) ==
    LET hits == {i \in DOMAIN keys : keys[i].platform_id = platform_id}
    IN IF hits = {} THEN "None" ELSE keys[Min(hits)].keyid

\* ---- exporters ------------------------------------------------------------
\* line 125
export_path(repo) == PathJoin(PathJoin(pulp_export_path, repo.export_path), PackagesDir)

\* lines 127-128
exporter_name(repo) ==
    repo.name \o <<"-">> \o repo.arch
        \o (IF repo.debug THEN <<"-", "d", "e", "b", "u", "g">> ELSE <<>>)

\* lines 118-153: one dict per repository of the table whose id is asked for
create_filesystem_exporters(repository_ids, table) ==
    LET Asked(repo) == repo.id \in repository_ids
        rows == SelectSeq(table, Asked)
    IN [i \in DOMAIN rows |->
           [repo_id |-> rows[i].id, exporter_name |-> exporter_name(rows[i]),
            export_path |-> export_path(rows[i])]]

\* the exporters that the calls of lines 129-130 register in Pulp
Registered(created) ==
    {[name |-> created[i].exporter_name, path |-> created[i].export_path,
      created |-> "this run"] : i \in DOMAIN created}

\* an exporter that an earlier run left behind
LeftBehind ==
    [name |-> <<"b", "8", "-">> \o X86_64,
     path |-> PathJoin(PathJoin(pulp_export_path, PathJoin(<<"a">>, X86_64)), PackagesDir),
     created |-> "an earlier run"]

\* lines 511-522 without the delete call
ExportersAfterDelete_KeepsAll(existing_exporters) == existing_exporters

\* lines 511-522: every exporter that Pulp lists is deleted
ExportersAfterDelete(existing_exporters) == {}

\* lines 166-175: the list that export_repositories returns
PathsOf(created) == [i \in DOMAIN created |-> created[i].export_path]

\* ---- the disk --------------------------------------------------------------
Dirs ==
    UNION {{export_path(table[i]), Parent(export_path(table[i]))} :
            table \in RepositoryTables, i \in 1..3}

\* directory d is path or lies inside it
IsUnder(path, d) ==
    \/ d = path
    \/ IsPrefix(IF path # <<>> /\ path[Len(path)] = "/" THEN path
                ELSE path \o <<"/">>, d)

\* chown -R who:who path
Chown(owners, path, who) ==
    [d \in DOMAIN owners |-> IF IsUnder(path, d) THEN who ELSE owners[d]]

\* a finally that runs only when the try block raised nothing
OwnerAfterFinally_OnlyOnSuccess(owners, path, exception) ==
    IF exception = "" THEN Chown(owners, path, "pulp") ELSE owners

\* lines 467-472 and 615-618: the finally of the try block
OwnerAfterFinally(owners, path, exception) == Chown(owners, path, "pulp")

\* ---- selection ------------------------------------------------------------
\* lines 415-426
DbPlatforms(platform_names) ==
    LET Wanted(platform) ==
            /\ ~platform.is_reference
            /\ platform_names # <<>> => platform.name \in Range(platform_names)
    IN SelectSeq(Platforms, Wanted)

\* db_platform.repos
ReposOf(db_platform, table) ==
    LET Owned(repo) == repo.id \in Range(db_platform.repos)
    IN SelectSeq(table, Owned)

\* lines 436-439: the repositories of the platform that the loop does not skip
Considered(db_platform, table, repo_ids) ==
    LET Kept(repo) ==
            ~((repo_ids # <<>> /\ repo.id \notin Range(repo_ids))
              \/ repo.production = FALSE)
    IN SelectSeq(ReposOf(db_platform, table), Kept)

\* lines 445-451
ToExport(db_platform, table, repo_ids, arches) ==
    LET InArches(repo) == arches # <<>> => repo.arch \in Range(arches)
    IN SelectSeq(Considered(db_platform, table, repo_ids), InArches)

IdsOf(rows) == {rows[i].id : i \in DOMAIN rows}

\* lines 304-305
get_full_repo_name(repo) ==
    repo.name \o <<"-">>
        \o (IF repo.debug THEN <<"d", "e", "b", "u", "g", "i", "n", "f", "o", "-">>
            ELSE <<>>)
        \o repo.arch

\* dict[key] = value.  A dict is the sequence of its items in the order of
\* their keys' first assignment; the value of a repository, the pair of its
\* pulp_href and debug flag, is given by its id.
DictPut(dict, key, value) ==
    LET at == {p \in DOMAIN dict : dict[p].key = key}
    IN IF at = {} THEN Append(dict, [key |-> key, value |-> value])
       ELSE [p \in DOMAIN dict |-> IF p \in at THEN [key |-> key, value |-> value]
                                    ELSE dict[p]]

\* dict.values()
Values(dict) == {dict[p].value : p \in DOMAIN dict}

\* lines 439-444 and 500-506: repos_<arch>[repo_name] = ... for every row of
\* that arch, in order
RECURSIVE UpdateReposDict(_, _, _)
UpdateReposDict(dict, rows, arch) ==
    IF rows = <<>> THEN dict
    ELSE LET repo == Head(rows)
             put  == IF repo.arch = arch
                     THEN DictPut(dict, get_full_repo_name(repo), repo.id)
                     ELSE dict
         IN UpdateReposDict(put, Tail(rows), arch)

\* lines 287-301: the (source, destination) pairs that get a task; the dicts
\* carry the debug flag of every repository
prepare_and_execute_async_tasks(copy, source_repo_dict, destination_repo_dict, table) ==
    IF ~copy THEN {}
    ELSE {pair \in Values(source_repo_dict) \X Values(destination_repo_dict) :
            \A i, j \in DOMAIN table :
                (table[i].id = pair[1] /\ table[j].id = pair[2])
                    => table[i].debug = table[j].debug}

\* one call of prepare_and_execute_async_tasks: the repositories of its two
\* dicts and the tasks that it made
NoarchCall(source_repo_dict, destination_repo_dict, tasks) ==
    [source |-> Values(source_repo_dict), destination |-> Values(destination_repo_dict),
     tasks |-> tasks]

\* Pulp applying the calls of one task to a repository
RECURSIVE PulpAfter(_, _)
PulpAfter(held, calls) ==
    IF calls = <<>> THEN held
    ELSE PulpAfter([content |-> PulpApply(held.content, Head(calls)),
                    version |-> PulpVersion(held.version, Head(calls)),
                    publications |->
                        IF Head(calls).op = "create_rpm_publication"
                        THEN held.publications + 1 ELSE held.publications],
                   Tail(calls))

\* line 303 with lines 232-276 of every task: what Pulp can hold when
\* asyncio.gather returns or raises.  history is what Pulp held at the start
\* and after the calls of every task that has made its calls; the tasks make
\* their calls in any order, and a task compares the listing of its source,
\* which line 291 fetched before any task ran, with the destination version
\* that Pulp named when it answered the task's get_repo_latest_version: the
\* latest at the start or after the calls of any task that was earlier.
\* exception is "" when every task makes all its calls.  Otherwise a request
\* of some task raises and changes nothing in Pulp, so that task has made
\* fewer calls than it had to make, or had none to make; any other task
\* has made any number of its calls when the exception leaves the gather.
\* exception is "awaited" until a task has raised and "raised" from then on.
RECURSIVE asyncio_gather(_, _, _, _, _)
asyncio_gather(history, tasks, show_differ, only_check, exception) ==
    IF tasks = {}
    THEN IF exception = "awaited" THEN {} ELSE {history[Len(history)]}
    ELSE UNION
           {LET source == retrieve_all_packages_from_pulp(history[1][task[1]].content)
                dst    == retrieve_all_packages_from_pulp(history[seen][task[2]].content)
                calls  == ModifyCalls(ToAdd(source, dst, show_differ),
                                      ToRemove(source, dst), only_check)
                now    == history[Len(history)]
                After(n) ==
                    [now EXCEPT ![task[2]] = PulpAfter(now[task[2]], SubSeq(calls, 1, n))]
                Then(n) ==
                    IF exception # "" /\ (n < Len(calls) \/ calls = <<>>)
                    THEN "raised" ELSE exception
            IN UNION {asyncio_gather(Append(history, After(n)), tasks \ {task},
                                     show_differ, only_check, Then(n)) :
                        n \in IF exception = "" THEN {Len(calls)} ELSE 0..Len(calls)} :
              task \in tasks, seen \in DOMAIN history}

\* lines 493-498: the production repositories of the release plan
ReleaseDbRepos(repo_ids, table) ==
    LET Wanted(repo) == repo.id \in repo_ids /\ repo.production
    IN SelectSeq(table, Wanted)

\* ---- signing --------------------------------------------------------------
\* lines 603-611: the key of the last platform of platforms_dict that has a
\* repository whose export path is part of the exported path; without one,
\* `key_id_by_platform or None`, where an empty key id counts as no key
SelectKeyId(string_exp_path, by_platform, dict, keys) ==
    LET hits == {k \in DOMAIN dict :
                    \E i \in DOMAIN dict[k].repos :
                        Contains(dict[k].repos[i], string_exp_path)}
    IN IF hits # {} THEN FirstKeyId(keys, dict[Max(hits)].platform_id)
       ELSE IF by_platform = "" THEN "None"
       ELSE by_platform

\* lines 177-200 with the file written whatever the sign server answers
repomd_signer_WritesAlways(key_id, response) ==
    IF key_id = "None"
    THEN [request |-> FALSE, written |-> FALSE, raises |-> FALSE]
    ELSE [request |-> TRUE, written |-> response # "raise", raises |-> response = "raise"]

\* lines 177-200: whether a request is sent, repomd.xml.asc written, and an
\* exception raised (raise_for_status, line 105)
repomd_signer(key_id, response) ==
    IF key_id = "None"
    THEN [request |-> FALSE, written |-> FALSE, raises |-> FALSE]
    ELSE [request |-> TRUE, written |-> response = "asc_content",
          raises |-> response = "raise"]

\* the answers of the sign server to one request
SignResponses == {"asc_content", "error", "raise"}

\* ---- the run ---------------------------------------------------------------
pulp_locals == <<platform_i, call_exporters, export_i, harden_i, final_export_paths,
                 local_platforms_dict, repos_x86_64, repos_ppc64le>>

main_locals == <<exported_paths, platforms_dict, key_id_by_platform, main_i>>

main_effects == <<regenerated, errata_called, errata_merged, signer_calls, sign_requests,
                  signature_files, metadata_log>>

\* main() has parsed its arguments and constructed the Exporter (lines 550-565)
InitExport ==
    /\ args \in Invocations
    /\ repositories \in RepositoryTables
    /\ db_sign_keys \in SignServerKeys
    /\ unexportable \in {{}, {2}}
    /\ registered_before \in {{}, {LeftBehind}}
    /\ copy_noarch_packages \in BOOLEAN
    /\ updateinfo \in {{}, {1}}
    /\ pc = "main"
    /\ exporters = registered_before
    /\ exported = {}
    /\ existing = {}
    /\ owner = [d \in Dirs |-> "pulp"]
    /\ platform_i = 1
    /\ call_exporters = <<>>
    /\ export_i = 1
    /\ harden_i = 1
    /\ final_export_paths = <<>>
    /\ local_platforms_dict = <<>>
    /\ repos_x86_64 = <<>>
    /\ repos_ppc64le = <<>>
    /\ exported_paths = <<>>
    /\ platforms_dict = <<>>
    /\ key_id_by_platform = "None"
    /\ main_i = 1
    /\ raising = ""
    /\ failure = ""
    /\ noarch_calls = <<>>
    /\ verified = {}
    /\ regenerated = {}
    /\ errata_called = {}
    /\ errata_merged = {}
    /\ signer_calls = <<>>
    /\ sign_requests = {}
    /\ signature_files = {}
    /\ metadata_log = <<>>
    /\ pulp_content \in PulpContents
    /\ ReconcileIdle
    /\ repository_files \in ExportedDirectories
    /\ sign_keys = <<>>
    /\ known_subkeys = {}
    /\ errored_packages = {}
    /\ no_signature_packages = {}
    /\ wrong_signature_packages = {}
    /\ logged_errors = {}
    /\ export_error_file = [exists |-> FALSE, text |-> <<>>]
    /\ scans = 0

\* lines 278-303: one call of prepare_and_execute_async_tasks.  It returns
\* when every task has made its calls, or raises what a request to Pulp
\* raises: a request of line 289 for the source at some place of the dict,
\* when the tasks of the sources before it are made and none has run, or a
\* request of a task inside asyncio.gather.
execute_async_tasks(source_repo_dict, destination_repo_dict, raised) ==
    LET Tasks(sources) ==
            prepare_and_execute_async_tasks(copy_noarch_packages, sources,
                                            destination_repo_dict, repositories)
        Call(tasks) == NoarchCall(source_repo_dict, destination_repo_dict, tasks)
        all == Tasks(source_repo_dict)
    IN IF ~raised
       THEN /\ noarch_calls' = Append(noarch_calls, Call(all))
            /\ pulp_content' \in asyncio_gather(<<pulp_content>>, all, show_differ_packages,
                                                 only_check_noarch, "")
       ELSE \/ \E k \in DOMAIN source_repo_dict :
                 /\ noarch_calls' =
                       Append(noarch_calls,
                              Call(Tasks(SubSeq(source_repo_dict, 1, k - 1))))
                 /\ UNCHANGED pulp_content
            \/ /\ noarch_calls' = Append(noarch_calls, Call(all))
               /\ pulp_content' \in asyncio_gather(<<pulp_content>>, all,
                                                    show_differ_packages,
                                                    only_check_noarch, "awaited")

\* whether the call makes a request to Pulp, which can raise: line 289
Raises(source_repo_dict) == {FALSE, copy_noarch_packages /\ source_repo_dict # <<>>}

\* line 582
AfterRelease ==
    IF args.platform_names # <<>> \/ args.repo_ids # <<>>
    THEN "export_repos_from_pulp"
    ELSE "main_loop"

\* line 573
AfterDelete == IF args.release_id # 0 THEN "export_repos_from_release" ELSE AfterRelease

\* lines 313-322: the dict of the x86_64 repositories of the distribution or
\* the dict of the others, keyed by repo.name
RECURSIVE DistributionRepos(_, _, _)
DistributionRepos(dict, rows, x86_64) ==
    IF rows = <<>> THEN dict
    ELSE LET repo == Head(rows)
             put  == IF repo.arch # <<"s", "r", "c">> /\ (repo.arch = X86_64) = x86_64
                     THEN DictPut(dict, repo.name, repo.id)
                     ELSE dict
         IN DistributionRepos(put, Tail(rows), x86_64)

\* lines 566-569 and 307-323: with --distribution main only reconciles the
\* repositories of the distribution and returns
check_noarch_in_user_distribution_repos ==
    /\ pc = "main"
    /\ args.distribution # ""
    /\ LET db_distr     == DistributionOf(args.distribution)
           InDistr(repo) == repo.id \in Range(db_distr.repositories)
           rows         == SelectSeq(repositories, InDistr)
           repos_x86    == DistributionRepos(<<>>, rows, TRUE)
           other_repos  == DistributionRepos(<<>>, rows, FALSE)
       IN IF db_distr = NoDistribution
          THEN /\ pc' = "aborted"
               /\ failure' = "AttributeError"
               /\ UNCHANGED <<noarch_calls, pulp_content>>
          ELSE \E raised \in Raises(repos_x86) :
                  /\ execute_async_tasks(repos_x86, other_repos, raised)
                  /\ pc' = IF raised THEN "aborted" ELSE "done"
                  /\ failure' = IF raised THEN "prepare_and_execute_async_tasks"
                                ELSE failure
    /\ UNCHANGED <<export_inputs, exporters, exported, existing, owner, pulp_locals,
                   main_locals, raising, verified, main_effects>>
    /\ UNCHANGED <<reconcile_vars, verify_vars>>

\* lines 570-572
delete_existing_exporters_from_pulp ==
    /\ pc = "main"
    /\ args.distribution = ""
    /\ exporters' = ExportersAfterDelete(exporters)
    /\ pc' = AfterDelete
    /\ UNCHANGED <<export_inputs, exported, existing, owner, pulp_locals, main_locals,
                   raising, failure, noarch_calls, verified, main_effects>>
    /\ UNCHANGED <<reconcile_vars, verify_vars, pulp_content>>

\* lines 478-508, up to the first export of export_repositories
export_repos_from_release ==
    /\ pc = "export_repos_from_release"
    /\ LET db_release == ReleaseOf(args.release_id)
           repo_ids   == Range(db_release.plan)
           db_repos   == ReleaseDbRepos(repo_ids, repositories)
           created    == create_filesystem_exporters(repo_ids, repositories)
           x86_64     == UpdateReposDict(<<>>, db_repos, X86_64)
           ppc64le    == UpdateReposDict(<<>>, db_repos, Ppc64le)
       IN IF db_release = NoRelease
          THEN /\ pc' = "aborted"
               /\ failure' = "AttributeError"
               /\ UNCHANGED <<exporters, call_exporters, export_i, noarch_calls,
                              pulp_content>>
          ELSE \E raised \in Raises(x86_64) :
                  /\ execute_async_tasks(x86_64, ppc64le, raised)
                  /\ IF raised
                     THEN /\ pc' = "aborted"
                          /\ failure' = "prepare_and_execute_async_tasks"
                          /\ UNCHANGED <<exporters, call_exporters, export_i>>
                     ELSE /\ exporters' = exporters \cup Registered(created)
                          /\ call_exporters' = created
                          /\ export_i' = 1
                          /\ pc' = "release_export"
                          /\ UNCHANGED failure
    /\ UNCHANGED <<export_inputs, exported, existing, owner, platform_i, harden_i,
                   final_export_paths, local_platforms_dict, repos_x86_64,
                   repos_ppc64le, main_locals, raising, verified, main_effects>>
    /\ UNCHANGED <<reconcile_vars, verify_vars>>

\* lines 166-174: one iteration of the loop of export_repositories
export_to_filesystem ==
    /\ pc \in {"release_export", "pulp_export"}
    /\ export_i <= Len(call_exporters)
    /\ \E raised \in BOOLEAN :
          LET exporter == call_exporters[export_i]
          IN IF raised
             THEN /\ pc' = "aborted"
                  /\ failure' = "export_to_filesystem"
                  /\ UNCHANGED <<exported, existing, export_i>>
             ELSE /\ exported' = exported \cup
                        {[path |-> exporter.export_path,
                          mode |-> IF pc = "release_export" THEN "release" ELSE "pulp"]}
                  /\ existing' = existing \cup
                        (IF exporter.repo_id \in unexportable THEN {}
                         ELSE {exporter.export_path, Parent(exporter.export_path)})
                  /\ export_i' = export_i + 1
                  /\ UNCHANGED <<pc, failure>>
    /\ UNCHANGED <<export_inputs, exporters, owner, platform_i, call_exporters, harden_i,
                   final_export_paths, local_platforms_dict, repos_x86_64,
                   repos_ppc64le, main_locals, raising, noarch_calls, verified,
                   main_effects>>
    /\ UNCHANGED <<reconcile_vars, verify_vars, pulp_content>>

\* lines 508-509 and 575-580
export_repos_from_release_return ==
    /\ pc = "release_export"
    /\ export_i > Len(call_exporters)
    /\ exported_paths' = PathsOf(call_exporters)
    /\ key_id_by_platform' =
          FirstKeyId(db_sign_keys, ReleaseOf(args.release_id).platform_id)
    /\ pc' = AfterRelease
    /\ UNCHANGED <<export_inputs, exporters, exported, existing, owner, pulp_locals,
                   platforms_dict, main_i, raising, failure, noarch_calls, verified,
                   main_effects>>
    /\ UNCHANGED <<reconcile_vars, verify_vars, pulp_content>>

\* lines 431-453: one platform, up to the first export of export_repositories
export_repos_from_pulp_platform ==
    /\ pc = "export_repos_from_pulp"
    /\ platform_i <= Len(DbPlatforms(args.platform_names))
    /\ LET db_platform == DbPlatforms(args.platform_names)[platform_i]
           considered  == Considered(db_platform, repositories, args.repo_ids)
           to_export   == ToExport(db_platform, repositories, args.repo_ids, args.arches)
           created     == create_filesystem_exporters(IdsOf(to_export), repositories)
       IN /\ local_platforms_dict' =
                Append(local_platforms_dict,
                       [platform_id |-> db_platform.id,
                        repos |-> [i \in DOMAIN to_export |-> to_export[i].export_path]])
          /\ repos_x86_64' =
                UpdateReposDict(repos_x86_64, considered, X86_64)
          /\ repos_ppc64le' =
                UpdateReposDict(repos_ppc64le, considered, Ppc64le)
          /\ exporters' = exporters \cup Registered(created)
          /\ call_exporters' = created
    /\ export_i' = 1
    /\ harden_i' = 1
    /\ pc' = "pulp_export"
    /\ UNCHANGED <<export_inputs, exported, existing, owner, platform_i,
                   final_export_paths, main_locals, raising, failure, noarch_calls,
                   verified, main_effects>>
    /\ UNCHANGED <<reconcile_vars, verify_vars, pulp_content>>

\* lines 452-454: export_repositories returns the paths of the platform
export_repositories_return ==
    /\ pc = "pulp_export"
    /\ export_i > Len(call_exporters)
    /\ final_export_paths' = final_export_paths \o PathsOf(call_exporters)
    /\ pc' = "pulp_harden"
    /\ UNCHANGED <<export_inputs, exporters, exported, existing, owner, platform_i,
                   call_exporters, export_i, harden_i, local_platforms_dict,
                   repos_x86_64, repos_ppc64le, main_locals, raising, failure,
                   noarch_calls, verified, main_effects>>
    /\ UNCHANGED <<reconcile_vars, verify_vars, pulp_content>>

\* lines 455-466: the check of the path and the try block of one exported
\* path, the scan of check_rpms_signature included; a step of the block that
\* raises does so before it has changed anything
harden_path ==
    /\ pc = "pulp_harden"
    /\ harden_i <= Len(call_exporters)
    /\ LET repo_path   == call_exporters[harden_i].export_path
           db_platform == DbPlatforms(args.platform_names)[platform_i]
           \* db_platform.sign_keys
           keys        == SelectSeq(db_sign_keys,
                                    LAMBDA key : key.platform_id = db_platform.id)
           key_ids     == [i \in DOMAIN keys |-> keyid_text[keys[i].keyid]]
           \* lines 325-396 for repo_path
           files       == repository_files
           results     == ScanResults(files, key_ids, known_subkeys)
           PathOf(i)   == repo_path \o <<"/">> \o files[i].name
           errored     == {PathOf(i) : i \in FilesIn("errored", results)}
           unsigned    == {PathOf(i) : i \in FilesIn("no_signature", results)}
           wrong       == {PathOf(i) \o <<" ">> \o pkg_key_id_of(files[i]) :
                              i \in FilesIn("wrong_signature", results)}
       IN IF repo_path \notin existing
          THEN /\ harden_i' = harden_i + 1
               /\ UNCHANGED <<owner, verified, raising, pc>>
               /\ UNCHANGED verify_vars
          ELSE \E fault \in {"", "chown", "find", "check_rpms_signature"} :
                  /\ owner' = IF fault = "chown" THEN owner
                              ELSE Chown(owner, repo_path, "operator")
                  /\ verified' = IF fault = "" THEN verified \cup {repo_path}
                                 ELSE verified
                  /\ raising' = fault
                  /\ pc' = "pulp_harden_finally"
                  /\ UNCHANGED harden_i
                  /\ IF fault # ""
                     THEN UNCHANGED verify_vars
                     ELSE /\ sign_keys' = key_ids
                          /\ errored_packages' = errored
                          /\ no_signature_packages' = unsigned
                          /\ wrong_signature_packages' = wrong
                          /\ logged_errors' =
                                {PathOf(i) : i \in {k \in DOMAIN results :
                                                        results[k].logged}}
                          /\ \E eo \in Orders(errored), uo \in Orders(unsigned),
                                wo \in Orders(wrong) :
                                export_error_file' =
                                    WriteReport(export_error_file, eo, uo, wo)
                          /\ scans' = scans + 1
                          /\ UNCHANGED <<repository_files, known_subkeys>>
    /\ UNCHANGED <<export_inputs, exporters, exported, existing, platform_i,
                   call_exporters, export_i, final_export_paths, local_platforms_dict,
                   repos_x86_64, repos_ppc64le, main_locals, failure, noarch_calls,
                   main_effects>>
    /\ UNCHANGED <<reconcile_vars, pulp_content>>

\* lines 467-472: the finally of the try block; an exception goes on after it
harden_path_finally ==
    /\ pc = "pulp_harden_finally"
    /\ owner' = OwnerAfterFinally(owner, call_exporters[harden_i].export_path, raising)
    /\ IF raising # ""
       THEN /\ pc' = "aborted"
            /\ failure' = raising
            /\ UNCHANGED harden_i
       ELSE /\ pc' = "pulp_harden"
            /\ harden_i' = harden_i + 1
            /\ UNCHANGED failure
    /\ raising' = ""
    /\ UNCHANGED <<export_inputs, exporters, exported, existing, platform_i,
                   call_exporters, export_i, final_export_paths, local_platforms_dict,
                   repos_x86_64, repos_ppc64le, main_locals, noarch_calls, verified,
                   main_effects>>
    /\ UNCHANGED <<reconcile_vars, verify_vars, pulp_content>>

\* lines 473-474: the paths of the platform are done, on to the next platform
next_platform ==
    /\ pc = "pulp_harden"
    /\ harden_i > Len(call_exporters)
    /\ platform_i' = platform_i + 1
    /\ pc' = "export_repos_from_pulp"
    /\ UNCHANGED <<export_inputs, exporters, exported, existing, owner, call_exporters,
                   export_i, harden_i, final_export_paths, local_platforms_dict,
                   repos_x86_64, repos_ppc64le, main_locals, raising, failure,
                   noarch_calls, verified, main_effects>>
    /\ UNCHANGED <<reconcile_vars, verify_vars, pulp_content>>

\* lines 475-476 and 585-589
export_repos_from_pulp_return ==
    /\ pc = "export_repos_from_pulp"
    /\ platform_i > Len(DbPlatforms(args.platform_names))
    /\ \E raised \in Raises(repos_x86_64) :
          /\ execute_async_tasks(repos_x86_64, repos_ppc64le, raised)
          /\ IF raised
             THEN /\ pc' = "aborted"
                  /\ failure' = "prepare_and_execute_async_tasks"
                  /\ UNCHANGED <<exported_paths, platforms_dict>>
             ELSE /\ exported_paths' = final_export_paths
                  /\ platforms_dict' = local_platforms_dict
                  /\ pc' = "main_loop"
                  /\ UNCHANGED failure
    /\ UNCHANGED <<export_inputs, exporters, exported, existing, owner, pulp_locals,
                   key_id_by_platform, main_i, raising, verified, main_effects>>
    /\ UNCHANGED <<reconcile_vars, verify_vars>>

\* the repo paths whose repodata holds a file matching *updateinfo.xml*: Pulp
\* exported it and createrepo_c --keep-all-metadata keeps it
WithUpdateinfo(table, ids, dirs) ==
    {repo_path \in dirs :
        \E i \in DOMAIN table :
            /\ table[i].id \in ids
            /\ repo_path = Parent(export_path(table[i]))}

\* line 612: the path is given to update_ppc64le_errata
ErrataCalled(exp_path) == Contains(Ppc64le, exp_path)

\* line 612 and lines 530-535: the errata step is called and finds an
\* updateinfo file in the x86_64 repodata to merge
ErrataApplies(exp_path, holding) ==
    /\ ErrataCalled(exp_path)
    /\ Parent(Replace(PathJoin(Parent(exp_path), RepodataDir), Ppc64le, X86_64))
          \in holding

\* the steps of the try block of lines 598-614 that can raise before the signer;
\* update_ppc64le_errata runs a command only when it merges
MainFaults(exp_path, holding) ==
    {"", "chown of the parent", "createrepo_c"}
        \cup (IF ErrataApplies(exp_path, holding) THEN {"update_ppc64le_errata"} ELSE {})

\* lines 600-614 with the signer called before createrepo_c
main_steps_SignsFirst(fault, errata, outcome) ==
    (IF fault = "" /\ outcome.request THEN <<"sign request">> ELSE <<>>)
    \o (IF fault = "" /\ outcome.written THEN <<"repomd.xml.asc">> ELSE <<>>)
    \o (IF fault \in {"chown of the parent", "createrepo_c"} THEN <<>>
        ELSE <<"createrepo_c">>)
    \o (IF fault = "" /\ errata THEN <<"update_ppc64le_errata">> ELSE <<>>)

\* lines 600-614: the steps of the try block that came to their end, in the
\* order in which they ran
main_steps(fault, errata, outcome) ==
    (IF fault \in {"chown of the parent", "createrepo_c"} THEN <<>>
     ELSE <<"createrepo_c">>)
    \o (IF fault = "" /\ errata THEN <<"update_ppc64le_errata">> ELSE <<>>)
    \o (IF fault = "" /\ outcome.request THEN <<"sign request">> ELSE <<>>)
    \o (IF fault = "" /\ outcome.written THEN <<"repomd.xml.asc">> ELSE <<>>)

\* lines 591-614: the check of the path and the try block of one exported path
process_exported_path ==
    /\ pc = "main_loop"
    /\ main_i <= Len(exported_paths)
    /\ LET exp_path  == exported_paths[main_i]
           repo_path == Parent(exp_path)
           repodata  == PathJoin(repo_path, RepodataDir)
           key_id    == SelectKeyId(exp_path, key_id_by_platform, platforms_dict,
                                    db_sign_keys)
           holding   == WithUpdateinfo(repositories, updateinfo, existing)
       IN IF repo_path \notin existing
          THEN /\ main_i' = main_i + 1
               /\ UNCHANGED <<owner, raising, pc, main_effects>>
          ELSE \E fault \in MainFaults(exp_path, holding) :
               \E response \in IF fault # "" \/ key_id = "None" THEN {"none"}
                               ELSE SignResponses :
                  LET outcome == repomd_signer(key_id, response)
                  IN /\ owner' = IF fault = "chown of the parent" THEN owner
                                 ELSE Chown(owner, repo_path, "operator")
                     /\ regenerated' =
                           IF fault \in {"chown of the parent", "createrepo_c"} THEN regenerated
                           ELSE regenerated \cup {repo_path}
                     /\ errata_called' =
                           IF fault \in {"", "update_ppc64le_errata"}
                              /\ ErrataCalled(exp_path)
                           THEN errata_called \cup {repodata}
                           ELSE errata_called
                     /\ errata_merged' =
                           IF fault = "" /\ ErrataApplies(exp_path, holding)
                           THEN errata_merged \cup {repodata}
                           ELSE errata_merged
                     /\ signer_calls' =
                           IF fault = ""
                           THEN Append(signer_calls, [repodata |-> repodata,
                                                      key_id |-> key_id,
                                                      response |-> response])
                           ELSE signer_calls
                     /\ sign_requests' =
                           IF fault = "" /\ outcome.request
                           THEN sign_requests \cup {[repodata |-> repodata,
                                                     pgp_keyid |-> key_id]}
                           ELSE sign_requests
                     /\ signature_files' =
                           IF fault = "" /\ outcome.written
                           THEN signature_files \cup {repodata}
                           ELSE signature_files
                     /\ metadata_log' =
                           LET steps == main_steps(fault,
                                                   ErrataApplies(exp_path, holding),
                                                   outcome)
                           IN metadata_log
                                \o [i \in DOMAIN steps |->
                                       [repodata |-> repodata, step |-> steps[i]]]
                     /\ raising' = IF fault # "" THEN fault
                                   ELSE IF outcome.raises THEN "repomd_signer" ELSE ""
                     /\ pc' = "main_finally"
                     /\ UNCHANGED main_i
    /\ UNCHANGED <<export_inputs, exporters, exported, existing, pulp_locals,
                   exported_paths, platforms_dict, key_id_by_platform, failure,
                   noarch_calls, verified>>
    /\ UNCHANGED <<reconcile_vars, verify_vars, pulp_content>>

\* lines 615-618: the finally of the try block; an exception goes on after it
process_exported_path_finally ==
    /\ pc = "main_finally"
    /\ owner' = OwnerAfterFinally(owner, Parent(exported_paths[main_i]), raising)
    /\ IF raising # ""
       THEN /\ pc' = "aborted"
            /\ failure' = raising
            /\ UNCHANGED main_i
       ELSE /\ pc' = "main_loop"
            /\ main_i' = main_i + 1
            /\ UNCHANGED failure
    /\ raising' = ""
    /\ UNCHANGED <<export_inputs, exporters, exported, existing, pulp_locals,
                   exported_paths, platforms_dict, key_id_by_platform, noarch_calls,
                   verified, main_effects>>
    /\ UNCHANGED <<reconcile_vars, verify_vars, pulp_content>>

\* line 618: the loop over the exported paths is over
main_return ==
    /\ pc = "main_loop"
    /\ main_i > Len(exported_paths)
    /\ pc' = "done"
    /\ UNCHANGED <<export_inputs, exporters, exported, existing, owner, pulp_locals,
                   main_locals, raising, failure, noarch_calls, verified, main_effects>>
    /\ UNCHANGED <<reconcile_vars, verify_vars, pulp_content>>

NextExport ==
    \/ check_noarch_in_user_distribution_repos
    \/ delete_existing_exporters_from_pulp
    \/ export_repos_from_release
    \/ export_to_filesystem
    \/ export_repos_from_release_return
    \/ export_repos_from_pulp_platform
    \/ export_repositories_return
    \/ harden_path
    \/ harden_path_finally
    \/ next_platform
    \/ export_repos_from_pulp_return
    \/ process_exported_path
    \/ process_exported_path_finally
    \/ main_return

SpecExport == InitExport /\ [][NextExport]_vars

\* ======================================================================
\* Properties of the run
\* ======================================================================
\* the path whose try block has run and whose finally has not
HeldPath ==
    IF pc = "pulp_harden_finally" THEN call_exporters[harden_i].export_path
    ELSE IF pc = "main_finally" THEN Parent(exported_paths[main_i])
    ELSE <<>>

OwnedByPulp(dirs) == \A d \in dirs : owner[d] = "pulp"

Terminal == pc \in {"done", "aborted"}

\* the exceptions that a step of the processing of one repository or path raises
ProcessingFailures ==
    {"export_to_filesystem", "chown", "find", "check_rpms_signature",
     "chown of the parent", "createrepo_c", "update_ppc64le_errata", "repomd_signer"}

\* C13: a directory is owned by the operator only while it is inside the path
\* whose try block has run and whose finally has not; in every other state, and
\* so whenever the processing of a path has ended, with or without an
\* exception, every directory is owned by the service identity.
C13_OwnershipReverted ==
    \A d \in DOMAIN owner :
        owner[d] # "pulp" => (HeldPath # <<>> /\ IsUnder(HeldPath, d))

\* the run ended by an exception raised after the ownership was handed over,
\* and every directory is the service's again
C13_Witness ==
    /\ pc = "aborted"
    /\ failure \in {"check_rpms_signature", "update_ppc64le_errata", "repomd_signer"}
    /\ existing # {}
    /\ OwnedByPulp(DOMAIN owner)

\* the exported path at which the run was when the exception ended it
FailedPath ==
    IF failure = "export_to_filesystem" THEN call_exporters[export_i].export_path
    ELSE IF failure \in {"chown", "find", "check_rpms_signature"}
    THEN call_exporters[harden_i].export_path
    ELSE exported_paths[main_i]

\* C14: when a step of the processing of one repository or path raised, the
\* run still ends with every other repository it made an exporter for
\* exported, and with every other exported path that exists regenerated by the
\* loop of main.
C14_FailureDoesNotStopTheRun ==
    (Terminal /\ failure \in ProcessingFailures) =>
        \A e \in exporters :
            e.path # FailedPath =>
                /\ e.path \in {x.path : x \in exported}
                /\ Parent(e.path) \in existing => Parent(e.path) \in regenerated

\* the repository row that an exported path belongs to
RowsOfPath(path) == {i \in DOMAIN repositories : export_path(repositories[i]) = path}

\* C16: no repository with production = false gets an exporter in this run or
\* is exported to the filesystem.
C16_NonProductionNeverExported ==
    /\ \A e \in exporters :
          e.created = "this run" =>
              \A i \in RowsOfPath(e.path) : repositories[i].production
    /\ \A x \in exported : \A i \in RowsOfPath(x.path) : repositories[i].production

\* C17: no run exports both for a release id and for a platform or repository
\* selection, and every path exported in the run is in the list that the loop
\* of main regenerates and signs.
C17_OneSelectionMode ==
    /\ ~(\E a, b \in exported : a.mode = "release" /\ b.mode = "pulp")
    /\ pc \in {"main_loop", "main_finally", "done"} =>
          {x.path : x \in exported} \subseteq Range(exported_paths)

\* C18: in a run that exports (one without --distribution), once the deletion
\* of line 570 has run, no exporter registered before the run is left, so no exporter of this run is created while one of them
\* exists and after provisioning the registered exporters are those of this run.
C18_StaleExportersDeletedFirst ==
    /\ (\E e \in exporters : e.created = "this run") =>
          (\A e \in exporters : e.created = "this run")
    /\ (pc # "main" /\ args.distribution = "") =>
          exporters \cap registered_before = {}
    /\ (pc \in {"main_loop", "main_finally", "done"} /\ args.distribution = "") =>
          \A e \in exporters : e.path \in Range(exported_paths) \cup {x.path : x \in exported}

\* a run that found an exporter of an earlier run and made its own
C18_Witness ==
    /\ pc = "done"
    /\ registered_before # {}
    /\ Cardinality(exporters) >= 2
    /\ \A e \in exporters : e.created = "this run"

\* C19: a run that ends because its release id matches no release has deleted
\* and created no exporter, started no reconciliation and changed no owner.
C19_ResolutionErrorBeforeSideEffects ==
    (pc = "aborted" /\ failure = "AttributeError") =>
        /\ exporters = registered_before
        /\ exported = {}
        /\ noarch_calls = <<>>
        /\ OwnedByPulp(DOMAIN owner)

\* C20: for every call of the signer, repomd.xml.asc is in the repodata
\* directory exactly when the call had a key and the sign server returned
\* signed content; a call without a key sends no request; and neither a call
\* without a key nor an answer that reports an error raises an exception.
C20_SigningOutcome ==
    \A i \in DOMAIN signer_calls :
        LET call == signer_calls[i]
        IN /\ call.repodata \in signature_files
                <=> (call.key_id # "None" /\ call.response = "asc_content")
           /\ call.key_id = "None" =>
                \A request \in sign_requests : request.repodata # call.repodata
           /\ call.key_id # "None" =>
                [repodata |-> call.repodata, pgp_keyid |-> call.key_id] \in sign_requests
           /\ (i = Len(signer_calls) /\ (call.key_id = "None" \/ call.response = "error"))
                => (raising # "repomd_signer" /\ failure # "repomd_signer")

\* a finished run with a path that had no key, one whose signing the service
\* refused and one that was signed
C20_Witness ==
    /\ pc = "done"
    /\ \E i, j, k \in DOMAIN signer_calls :
          /\ signer_calls[i].key_id = "None"
          /\ signer_calls[j].key_id # "None" /\ signer_calls[j].response = "error"
          /\ signer_calls[k].response = "asc_content"
          /\ signer_calls[k].repodata \in signature_files
          /\ signer_calls[j].repodata \notin signature_files

\* the Packages directories that this run has asked Pulp to export
ExportRequested == {x.path : x \in exported}

\* C21: the noarch reconciliation is started only when every repository that
\* got an exporter in this run has been exported, and no exported path has its
\* owner changed, its signatures verified or its metadata regenerated before
\* the reconciliation was started.
C21_ReconcileBetweenExportAndHardening ==
    /\ noarch_calls # <<>> =>
          \A e \in exporters : e.created = "this run" => e.path \in ExportRequested
    /\ (verified # {} \/ regenerated # {} \/ ~OwnedByPulp(DOMAIN owner))
          => noarch_calls # <<>>

\* C23: every path whose metadata is regenerated or handed to the signer had
\* its Packages directory verified by check_rpms_signature before.
C23_VerifiedBeforeSigned ==
    /\ \A repo_path \in regenerated : PathJoin(repo_path, PackagesDir) \in verified
    /\ \A i \in DOMAIN signer_calls :
          PathJoin(Parent(signer_calls[i].repodata), PackagesDir) \in verified

\* the platform that a repository belongs to
PlatformOf(repo_id) ==
    Platforms[Min({i \in DOMAIN Platforms : repo_id \in Range(Platforms[i].repos)})].id

RowOf(repo_id) ==
    repositories[Min({i \in DOMAIN repositories : repositories[i].id = repo_id})]

\* source and destination may be reconciled with each other
Eligible(source_id, destination_id) ==
    /\ RowOf(source_id).arch = X86_64
    /\ RowOf(destination_id).arch \notin {X86_64, <<"s", "r", "c">>}
    /\ PlatformOf(source_id) = PlatformOf(destination_id)
    /\ RowOf(source_id).debug = RowOf(destination_id).debug

\* C22: every task that a call of prepare_and_execute_async_tasks launches
\* pairs an x86_64 source with a destination of another architecture, of the
\* same platform and with the same debug flag, and with copying enabled every
\* such pair of the repositories handed to the call has a task.
C22_PairsWithinPlatform ==
    \A i \in DOMAIN noarch_calls :
        LET call == noarch_calls[i]
        IN /\ \A pair \in call.tasks : Eligible(pair[1], pair[2])
           /\ copy_noarch_packages =>
                \A source_id \in call.source, destination_id \in call.destination :
                    Eligible(source_id, destination_id)
                        => <<source_id, destination_id>> \in call.tasks

\* the platforms that own the repository exported to a repodata directory
OwnersOf(repodata) ==
    {PlatformOf(repositories[i].id) :
        i \in RowsOfPath(PathJoin(Parent(repodata), PackagesDir))}

\* C24: the key id of every request sent to the sign server is the first key
\* that the sign server lists for the platform owning the repository of the
\* path.
C24_KeyOfOwningPlatform ==
    \A request \in sign_requests :
        \A platform_id \in OwnersOf(request.repodata) :
            request.pgp_keyid = FirstKeyId(db_sign_keys, platform_id)

\* the steps that change the metadata of a repodata directory
MetadataSteps == {"createrepo_c", "update_ppc64le_errata"}

\* C26: every request to the sign server for a repodata directory comes after
\* the regeneration of that directory and after its errata merge, if it has
\* one, and once repomd.xml.asc is written no step changes the metadata of that
\* directory any more.
C26_SignedManifestIsFinal ==
    \A i \in DOMAIN metadata_log :
        LET entry == metadata_log[i]
        IN /\ entry.step = "sign request" =>
                /\ \E j \in 1..(i - 1) :
                      /\ metadata_log[j].repodata = entry.repodata
                      /\ metadata_log[j].step = "createrepo_c"
                /\ \A j \in DOMAIN metadata_log :
                      (metadata_log[j].repodata = entry.repodata
                         /\ metadata_log[j].step \in MetadataSteps) => j < i
           /\ entry.step = "repomd.xml.asc" =>
                \A j \in DOMAIN metadata_log :
                    (j > i /\ metadata_log[j].repodata = entry.repodata)
                        => metadata_log[j].step \notin MetadataSteps

\* a finished run that regenerated a ppc64le path, merged its errata, had it
\* signed, and went on to another path
C26_Witness ==
    /\ pc = "done"
    /\ \E i \in DOMAIN metadata_log :
          /\ i + 4 <= Len(metadata_log)
          /\ Contains(Ppc64le, metadata_log[i].repodata)
          /\ metadata_log[i].step = "createrepo_c"
          /\ metadata_log[i + 1].step = "update_ppc64le_errata"
          /\ metadata_log[i + 2].step = "sign request"
          /\ metadata_log[i + 3].step = "repomd.xml.asc"
          /\ metadata_log[i + 4].step = "createrepo_c"

\* every task of the gather has returned
GatherFinished ==
    /\ gather_tasks # <<>>
    /\ \A t \in DOMAIN gather_tasks : gather_tasks[t].at = "done"

\* C25: when the tasks of one batch that share a destination have all
\* finished, not in compare-only mode, the destination holds at most one
\* record per (name, version, release), whatever the order in which their
\* listings and modifications reached the service.
C25_SharedDestinationStaysUnique ==
    (GatherFinished /\ ~only_check_noarch) => UniqueNVR(Range(repo_content))

====
